---------------------------- MODULE Spec2Model ----------------------------
(***************************************************************************)
(* Leader-side coordination kernel of pi-agent-teams.                      *)
(*                                                                         *)
(*   SpecClaim : the attach-claim lease (team-attach-claim.ts)             *)
(*   SpecRpc   : the life of one TeammateRpc object (teammate-rpc.ts)      *)
(*   SpecTasks : task_set_status and the quality-gate remediation loop     *)
(*   SpecTool  : the member and task actions of the teams tool             *)
(*   SpecPlan  : plan_approve and plan_reject of the teams tool            *)
(*   SpecDelegate : one delegate call of the teams tool, for every input   *)
(*   SpecSteer : message_steer of the teams tool, on top of SpecRpc        *)
(*   SpecAssign : task_assign and task_set_status on a stored task list    *)
(*   SpecMembers : member_prune, member_shutdown and message_broadcast     *)
(*   SpecAttach : /team attach and /team detach of two sessions            *)
(*   SpecPolicy : the model policy for teammates, for every model id       *)
(*   SpecSelection : the model selection of a spawn, for every input       *)
(*   SpecCodec : the protocol parsers, for every mailbox text              *)
(*   SpecPlanCalls : plan_approve and plan_reject calls that overlap       *)
(*   SpecLines : handleLine of a TeammateRpc, for every line of stdout     *)
(*   SpecWidget : the two renderings of the teams widget                   *)
(*                                                                         *)
(* Each specification moves its own variables and leaves the others as     *)
(* Init set them.                                                          *)
(***************************************************************************)
EXTENDS Integers, Sequences, FiniteSets, TLC

VARIABLES
    \* ---- attach claim ----
    clock,        \* Date.now(), in ms
    claimFile,    \* <teamDir>/.attach-claim.json: <<>> when missing, else <<claim>>
    lockHolder,   \* session inside withLock(<claim>.lock), "" when free
    pc,           \* per session: "idle" | "waiting" | "locked"
    call,         \* per session: the call in flight
    result,       \* per session: what its last finished call returned
    nextCall,     \* ghost: number of calls issued so far
    \* ---- teammate RPC ----
    status,            \* TeammateRpc.status
    lastError,         \* TeammateRpc.lastError: "null" | "process_error" | "exit_code"
    lastAssistantText, \* length of TeammateRpc.lastAssistantText, in deltas
    proc,              \* TeammateRpc.proc: 0 = null, else the child it refers to
    pending,           \* keys of TeammateRpc.pending
    nextId,            \* TeammateRpc.nextId
    child,             \* per child process: running or not, signals, the killed flag
    bootTimers,        \* start() calls waiting for their 120 ms timer
    killTimers,        \* children whose stop() armed the 1 s timer that has not fired
    reqTimers,         \* requests whose 60 s timer has not fired
    stops,             \* stop() calls in progress, by the id of the abort they await
    outcomes,          \* ghost: per request, how its promise was settled, in order
    escalationDue,     \* ghost: children still running when their 1 s timer fired
    stopThrew,         \* ghost: some stop() call raised
    lastResponse,      \* ghost: id echoed by the response line just handled, else -1
    \* ---- task list, hook policy, mailboxes ----
    tasks,             \* the task list file: tasks in insertion order, task i has id i
    hooksPolicy,       \* effective hook policy of the team
    leadInbox,         \* mailbox/team/<lead>: idle notifications not yet handled
    taskMailbox,       \* mailbox/<taskListId>/<name>, per recipient, in append order
    opClock,           \* wall clock of the task actions: completions and tool calls so far
    lastRequest,       \* ghost: taskId and status of the task_set_status call that has
                       \*        just returned, NoRequest after any other step
    hookFailures,      \* ghost: per task id, hook failures the leader has handled
    \* ---- teams tool ----
    teammates,            \* keys of the teammates map, in insertion order
    members,              \* team config: per name "none" | "online" | "offline"
    pendingPlanApprovals, \* per name: <<>> or <<requestId>> of the plan awaiting a decision
    teamMailbox,          \* mailbox/team/<name>, per recipient, in append order
    toolCall,             \* the tool call suspended at an await, NoToolCall if none
    toolResult,           \* what the tool call that returned last reported
    nextPlanRequest,      \* ghost: plan approval requests relayed so far
    rpcStopped,           \* ghost: names whose TeammateRpc has returned from stop()
    steerCalls,           \* message_steer calls awaiting rpc.steer, by request id
    executeThrew,         \* ghost: some execute() call rejected instead of returning
    memberMeta,           \* cfg.members[name]: lastSeenAt and the meta the tool writes
    uuids,                \* number of randomUUID() values drawn so far
    \* ---- /team attach, /team detach ----
    claimFiles,           \* per team directory: .attach-claim.json, <<>> or <<claim>>
    activeTeamId,         \* per session: the team it works on
    taskListId,           \* per session: the task list it works on
    attachCall,           \* per session: the /team attach command in flight
    \* ---- model policy ----
    modelId,              \* the model id handed to isDeprecatedTeammateModelId
    deprecated,           \* <<what it returned>>, <<>> before the call
    selectionInput,       \* the input handed to resolveTeammateModelSelection
    selection,            \* <<what it returned>>, <<>> before the call
    \* ---- protocol codec ----
    mailText,   \* MailboxMessage.text handed to the parsers
    parsed,  \* <<per parser: <<envelope>>, or <<>> for null>>; <<>> before the call
    \* ---- overlapping plan decisions ----
    planCalls,  \* the plan_approve / plan_reject calls made so far, each at its await or returned
    \* ---- stdout lines ----
    lineOutcome,  \* ghost: what handleLine did with the line it has just handled
    \* ---- teams widget ----
    rpcStatusOf,   \* per teammate of the map: the status of its TeammateRpc
    delegateMode,   \* isDelegateMode()
    widget   \* <<the lines of the two renderings>>, <<>> before they are drawn

claimVars == <<clock, claimFile, lockHolder, pc, call, result, nextCall>>

rpcVars == <<status, lastError, lastAssistantText, proc, pending, nextId, child,
             bootTimers, killTimers, reqTimers, stops, outcomes, escalationDue,
             stopThrew, lastResponse>>

taskVars == <<tasks, hooksPolicy, leadInbox, taskMailbox, opClock, lastRequest,
              hookFailures>>

toolVars == <<teammates, members, pendingPlanApprovals, teamMailbox, toolCall,
              toolResult, nextPlanRequest, rpcStopped>>

steerVars == <<steerCalls, executeThrew>>

metaVars == <<memberMeta, uuids>>

attachVars == <<claimFiles, activeTeamId, taskListId, attachCall>>

policyVars == <<modelId, deprecated, selectionInput, selection>>

codecVars == <<mailText, parsed>>

planCallVars == <<planCalls>>

lineVars == <<lineOutcome>>

widgetVars == <<rpcStatusOf, delegateMode, widget>>

vars == <<claimVars, rpcVars, taskVars, toolVars, steerVars, metaVars, attachVars,
        widgetVars, lineVars, planCallVars, codecVars,
          policyVars>>

otherThanClaim == <<rpcVars, taskVars, toolVars, steerVars, metaVars, attachVars,
        widgetVars, lineVars, planCallVars, codecVars, policyVars>>
otherThanRpc == <<claimVars, taskVars, toolVars, steerVars, metaVars, attachVars,
        widgetVars, lineVars, planCallVars, codecVars, policyVars>>
otherThanTasks == <<claimVars, rpcVars, toolVars, steerVars, metaVars, attachVars,
        widgetVars, lineVars, planCallVars, codecVars, policyVars>>
otherThanTool == <<claimVars, rpcVars, steerVars, metaVars, attachVars,
        widgetVars, lineVars, planCallVars, codecVars, policyVars>>
otherThanMembers == <<claimVars, rpcVars, steerVars, attachVars,
        widgetVars, lineVars, planCallVars, codecVars, policyVars>>
otherThanAttach == <<rpcVars, taskVars, toolVars, steerVars, metaVars, policyVars,
        codecVars, planCallVars, lineVars, widgetVars>>
otherThanPlanCalls == <<claimVars, rpcVars, taskVars, steerVars, metaVars, attachVars,
        widgetVars, lineVars, codecVars, policyVars>>

Max(a, b) == IF a >= b THEN a ELSE b
Min(a, b) == IF a <= b THEN a ELSE b

(***************************************************************************)
(*                              ATTACH CLAIM                               *)
(***************************************************************************)

TEAM_ATTACH_CLAIM_STALE_MS == 30000

\* Bounds of the attach-claim model.
MaxCalls == 2          \* calls issued in one behaviour
MaxCoarseTicks == 2    \* clock advances of one stale period
MaxFineTicks == 1      \* clock advances of one millisecond per stale period

Sessions == {"s1", "s2"}

\* process.pid of the leader process that runs a session
Pid(s) == IF s = "s1" THEN 101 ELSE 102

\* Number.NaN / Number.POSITIVE_INFINITY, as values outside the range of the clock
NaN == -1
POSITIVE_INFINITY == 2147483647
IsFinite(x) == x # NaN /\ x # POSITIVE_INFINITY

\* An ISO-8601 string is the text of a millisecond count; any other non-empty
\* string is text Date.parse cannot read.
toISOString(ms) == [iso |-> TRUE, ms |-> ms]
JunkString == [iso |-> FALSE, ms |-> 0]
DateParse(str) == IF str.iso THEN str.ms ELSE NaN

Claim(holder, claimedAt, heartbeatAt, pid) ==
    [holderSessionId |-> holder, claimedAt |-> claimedAt,
     heartbeatAt |-> heartbeatAt, pid |-> pid]

\* Variant: a claim counts as stale as soon as its age reaches staleMs.
assessAttachClaimFreshness_AtLeast(claim, nowMs, staleMs) ==
    LET heartbeatMs == DateParse(claim.heartbeatAt) IN
    IF ~IsFinite(heartbeatMs)
    THEN [isStale |-> TRUE, ageMs |-> POSITIVE_INFINITY]
    ELSE LET ageMs == Max(0, nowMs - heartbeatMs) IN
         [isStale |-> ageMs >= staleMs, ageMs |-> ageMs]

\* Variant: an unreadable heartbeatAt is compared like a number.
assessAttachClaimFreshness_NoNaNCheck(claim, nowMs, staleMs) ==
    LET heartbeatMs == DateParse(claim.heartbeatAt)
        ageMs == Max(0, nowMs - heartbeatMs)
    IN [isStale |-> IsFinite(heartbeatMs) /\ ageMs > staleMs, ageMs |-> ageMs]

assessAttachClaimFreshness(claim, nowMs, staleMs) ==
    LET heartbeatMs == DateParse(claim.heartbeatAt) IN
    IF ~IsFinite(heartbeatMs)
    THEN [isStale |-> TRUE, ageMs |-> POSITIVE_INFINITY]
    ELSE LET ageMs == Max(0, nowMs - heartbeatMs) IN
         [isStale |-> ageMs > staleMs, ageMs |-> ageMs]

\* Variant: acquire stamps claimedAt anew also for the holder itself.
acquireTeamAttachClaim_FreshClaimedAt(holderSessionId, current, nowMs, staleMs, force) ==
    LET nowIso == toISOString(nowMs) IN
    IF current # <<>>
    THEN LET cur == current[1]
             freshness == assessAttachClaimFreshness(cur, nowMs, staleMs)
             sameHolder == cur.holderSessionId = holderSessionId
             claim == Claim(holderSessionId, nowIso, nowIso, Pid(holderSessionId))
         IN IF ~sameHolder /\ ~freshness.isStale /\ ~force
            THEN [file |-> current, ok |-> FALSE, reason |-> "claimed_by_other",
                  claim |-> <<cur>>, replacedClaim |-> <<>>]
            ELSE [file |-> <<claim>>, ok |-> TRUE, reason |-> "ok", claim |-> <<claim>>,
                  replacedClaim |-> IF sameHolder THEN <<>> ELSE <<cur>>]
    ELSE LET claim == Claim(holderSessionId, nowIso, nowIso, Pid(holderSessionId))
         IN [file |-> <<claim>>, ok |-> TRUE, reason |-> "ok", claim |-> <<claim>>,
             replacedClaim |-> <<>>]

\* Variant: acquire overwrites whatever claim it finds.
acquireTeamAttachClaim_NoRefusal(holderSessionId, current, nowMs, staleMs, force) ==
    LET nowIso == toISOString(nowMs) IN
    IF current # <<>>
    THEN LET cur == current[1]
             sameHolder == cur.holderSessionId = holderSessionId
             claim == Claim(holderSessionId,
                            IF sameHolder THEN cur.claimedAt ELSE nowIso,
                            nowIso, Pid(holderSessionId))
         IN [file |-> <<claim>>, ok |-> TRUE, reason |-> "ok", claim |-> <<claim>>,
             replacedClaim |-> IF sameHolder THEN <<>> ELSE <<cur>>]
    ELSE LET claim == Claim(holderSessionId, nowIso, nowIso, Pid(holderSessionId))
         IN [file |-> <<claim>>, ok |-> TRUE, reason |-> "ok", claim |-> <<claim>>,
             replacedClaim |-> <<>>]

\* The body of acquire's critical section after the read: the file it leaves
\* and the value it returns.  current is <<>> or <<claim>>.
acquireTeamAttachClaim(holderSessionId, current, nowMs, staleMs, force) ==
    LET nowIso == toISOString(nowMs) IN
    IF current # <<>>
    THEN LET cur == current[1]
             freshness == assessAttachClaimFreshness(cur, nowMs, staleMs)
             sameHolder == cur.holderSessionId = holderSessionId
             claim == Claim(holderSessionId,
                            IF sameHolder THEN cur.claimedAt ELSE nowIso,
                            nowIso, Pid(holderSessionId))
         IN IF ~sameHolder /\ ~freshness.isStale /\ ~force
            THEN [file |-> current, ok |-> FALSE, reason |-> "claimed_by_other",
                  claim |-> <<cur>>, replacedClaim |-> <<>>]
            ELSE [file |-> <<claim>>, ok |-> TRUE, reason |-> "ok", claim |-> <<claim>>,
                  replacedClaim |-> IF sameHolder THEN <<>> ELSE <<cur>>]
    ELSE LET claim == Claim(holderSessionId, nowIso, nowIso, Pid(holderSessionId))
         IN [file |-> <<claim>>, ok |-> TRUE, reason |-> "ok", claim |-> <<claim>>,
             replacedClaim |-> <<>>]

\* heartbeat's critical section after the read
heartbeatTeamAttachClaim(holderSessionId, current, nowMs) ==
    IF current = <<>>
    THEN [file |-> current, ok |-> FALSE, reason |-> "missing",
          claim |-> <<>>, replacedClaim |-> <<>>]
    ELSE IF current[1].holderSessionId # holderSessionId
    THEN [file |-> current, ok |-> FALSE, reason |-> "not_owner",
          claim |-> <<>>, replacedClaim |-> <<>>]
    ELSE LET updated == [current[1] EXCEPT !.heartbeatAt = toISOString(nowMs),
                                           !.pid = Pid(holderSessionId)]
         IN [file |-> <<updated>>, ok |-> TRUE, reason |-> "updated",
             claim |-> <<>>, replacedClaim |-> <<>>]

\* Variant: release does not look at the holder.
releaseTeamAttachClaim_NoOwnerCheck(holderSessionId, current, force) ==
    IF current = <<>>
    THEN [file |-> current, ok |-> FALSE, reason |-> "none",
          claim |-> <<>>, replacedClaim |-> <<>>]
    ELSE [file |-> <<>>, ok |-> TRUE, reason |-> "released",
          claim |-> <<>>, replacedClaim |-> <<>>]

\* release's critical section after the read
releaseTeamAttachClaim(holderSessionId, current, force) ==
    IF current = <<>>
    THEN [file |-> current, ok |-> FALSE, reason |-> "none",
          claim |-> <<>>, replacedClaim |-> <<>>]
    ELSE IF ~force /\ current[1].holderSessionId # holderSessionId
    THEN [file |-> current, ok |-> FALSE, reason |-> "not_owner",
          claim |-> <<>>, replacedClaim |-> <<>>]
    ELSE [file |-> <<>>, ok |-> TRUE, reason |-> "released",
          claim |-> <<>>, replacedClaim |-> <<>>]

\* ---- calls ----

NoCall ==
    [op |-> "none", force |-> FALSE, staleMs |-> 0, nowOpt |-> <<>>,
     nowMs |-> 0, current |-> <<>>, issuedFree |-> FALSE, overlap |-> FALSE]

NoResult ==
    [op |-> "none", force |-> FALSE, issuedFree |-> FALSE, overlap |-> FALSE,
     ok |-> FALSE, reason |-> "none", claim |-> <<>>, replacedClaim |-> <<>>]

\* opts.nowMs is a test hook no caller in the repository passes (<<>> =
\* omitted: Date.now()); opts.staleMs is always TEAM_ATTACH_CLAIM_STALE_MS.
StaleMsOpts == {<<>>}
NowMsOpts == {<<>>}

\* ghost: does the file hold no claim, or only one that is stale for a call
\* with these options issued now
FreeFor(file, nowOpt, staleMs) ==
    \/ file = <<>>
    \/ assessAttachClaimFreshness(file[1],
           IF nowOpt = <<>> THEN clock ELSE nowOpt[1], staleMs).isStale

InFlightAcquires == {t \in Sessions : pc[t] # "idle" /\ call[t].op = "acquire"}

\* withLock(lockFile, fn): exclusive creation of the lock file
WithLockEnter(s) == lockHolder = "" /\ lockHolder' = s
WithLockExit(s) == lockHolder = s /\ lockHolder' = ""

\* A call is issued.  issuedFree and overlap are ghosts: whether the claim
\* was absent or stale at that moment, and whether the call runs while
\* another session's acquire is in flight.
Issue(s, op, force, staleMs, nowOpt) ==
    /\ pc[s] = "idle"
    /\ nextCall < MaxCalls
    /\ nextCall' = nextCall + 1
    /\ pc' = [pc EXCEPT ![s] = "waiting"]
    /\ call' = [t \in Sessions |->
                 IF t = s
                 THEN [op |-> op, force |-> force,
                       staleMs |-> staleMs, nowOpt |-> nowOpt, nowMs |-> 0,
                       current |-> <<>>,
                       issuedFree |-> FreeFor(claimFile, nowOpt, staleMs),
                       overlap |-> op = "acquire" /\ InFlightAcquires # {}]
                 ELSE IF op = "acquire" /\ t \in InFlightAcquires
                 THEN [call[t] EXCEPT !.overlap = TRUE]
                 ELSE call[t]]
    /\ UNCHANGED <<clock, claimFile, lockHolder, result>>
    /\ UNCHANGED otherThanClaim

\* acquireTeamAttachClaim up to the lock
CallAcquire(s) ==
    \E force \in BOOLEAN, staleOpt \in StaleMsOpts, nowOpt \in NowMsOpts :
        Issue(s, "acquire", force,
              IF staleOpt = <<>> THEN TEAM_ATTACH_CLAIM_STALE_MS ELSE staleOpt[1],
              nowOpt)

\* heartbeatTeamAttachClaim up to the lock
CallHeartbeat(s) ==
    \E nowOpt \in NowMsOpts :
        Issue(s, "heartbeat", FALSE, TEAM_ATTACH_CLAIM_STALE_MS, nowOpt)

\* releaseTeamAttachClaim up to the lock
CallRelease(s) ==
    \E force \in BOOLEAN :
        Issue(s, "release", force, TEAM_ATTACH_CLAIM_STALE_MS, <<>>)

\* The lock is taken; acquire fixes nowMs, then every operation reads the file.
EnterLock(s) ==
    /\ pc[s] = "waiting"
    /\ WithLockEnter(s)
    /\ pc' = [pc EXCEPT ![s] = "locked"]
    /\ call' = [call EXCEPT ![s].current = claimFile,
                            ![s].nowMs = IF call[s].nowOpt = <<>> THEN clock
                                         ELSE call[s].nowOpt[1]]
    /\ UNCHANGED <<clock, claimFile, result, nextCall>>
    /\ UNCHANGED otherThanClaim

\* What the critical section of session s computes from what it read.
Outcome(s) ==
    LET c == call[s]
        \* heartbeat reads the time after its checks
        nowMs == IF c.op = "heartbeat"
                 THEN (IF c.nowOpt = <<>> THEN clock ELSE c.nowOpt[1])
                 ELSE c.nowMs
    IN CASE c.op = "acquire" ->
              acquireTeamAttachClaim(s, c.current, nowMs, c.staleMs, c.force)
         [] c.op = "heartbeat" ->
              heartbeatTeamAttachClaim(s, c.current, nowMs)
         [] OTHER ->
              releaseTeamAttachClaim(s, c.current, c.force)

\* The rest of the critical section: decide, write (temp file then rename),
\* leave the lock, return.
Finish(s) ==
    /\ pc[s] = "locked"
    /\ WithLockExit(s)
    /\ LET c == call[s]
           r == Outcome(s)
       IN /\ claimFile' = r.file
          /\ result' = [result EXCEPT ![s] =
                 [op |-> c.op, force |-> c.force,
                  issuedFree |-> c.issuedFree, overlap |-> c.overlap,
                  ok |-> r.ok, reason |-> r.reason,
                  claim |-> r.claim, replacedClaim |-> r.replacedClaim]]
    /\ pc' = [pc EXCEPT ![s] = "idle"]
    /\ call' = [call EXCEPT ![s] = NoCall]
    /\ UNCHANGED <<clock, nextCall>>
    /\ UNCHANGED otherThanClaim

\* Time passes: one millisecond, or one stale period.
TickFine ==
    /\ clock % TEAM_ATTACH_CLAIM_STALE_MS < MaxFineTicks
    /\ clock' = clock + 1
    /\ UNCHANGED <<claimFile, lockHolder, pc, call, result, nextCall>>
    /\ UNCHANGED otherThanClaim

TickCoarse ==
    /\ clock < MaxCoarseTicks * TEAM_ATTACH_CLAIM_STALE_MS
    /\ clock' = clock + TEAM_ATTACH_CLAIM_STALE_MS
    /\ UNCHANGED <<claimFile, lockHolder, pc, call, result, nextCall>>
    /\ UNCHANGED otherThanClaim

\* What the team directory may hold at the start: nothing, or the claim s1
\* took when it attached, whose heartbeatAt may be unreadable.
InitialClaimFiles ==
    {<<>>,
     <<Claim("s1", toISOString(0), toISOString(0), Pid("s1"))>>,
     <<Claim("s1", toISOString(0), JunkString, Pid("s1"))>>}

ClaimInit ==
    /\ clock = 0
    /\ lockHolder = ""
    /\ pc = [s \in Sessions |-> "idle"]
    /\ call = [s \in Sessions |-> NoCall]
    /\ result = [s \in Sessions |-> NoResult]
    /\ nextCall = 0

\* ---- /team attach, /team detach ----

MaxCommands == 3       \* /team attach and /team detach commands in one behaviour

\* team directories: two teams of their own, and the team of each session
\* (defaultTeamId is the session id)
Teams == {"tX", "tY"} \cup Sessions

\* cfg.taskListId of a team
TaskListOf(team) ==
    IF team = "tX" THEN "listX" ELSE IF team = "tY" THEN "listY" ELSE team

NoAttachCall == [step |-> "idle", target |-> ""]

\* setActiveTeamId(cfg.teamId); setTaskListId(cfg.taskListId)
AttachSwitch(s, target) ==
    /\ activeTeamId' = [activeTeamId EXCEPT ![s] = target]
    /\ taskListId' = [taskListId EXCEPT ![s] = TaskListOf(target)]

\* /team attach <target> [--claim], up to the return of acquireTeamAttachClaim
\* and, when no previous team has to be released, to its end.  The early
\* returns (usage, already attached, teammates running, team not found,
\* confirmation declined) change nothing and are guards.
HandleTeamAttach(s, target, forceClaim) ==
    /\ nextCall < MaxCommands
    /\ attachCall[s].step = "idle"
    /\ target # activeTeamId[s]
    /\ teammates = <<>>
    /\ LET claimResult == acquireTeamAttachClaim(s, claimFiles[target], clock,
                                                 TEAM_ATTACH_CLAIM_STALE_MS, forceClaim)
           previouslyAttached == activeTeamId[s] # s
       IN /\ claimFiles' = [claimFiles EXCEPT ![target] = claimResult.file]
          /\ IF ~claimResult.ok
             THEN UNCHANGED <<activeTeamId, taskListId, attachCall>>
             ELSE IF previouslyAttached
             THEN /\ attachCall' = [attachCall EXCEPT ![s] =
                                       [step |-> "release", target |-> target]]
                  /\ UNCHANGED <<activeTeamId, taskListId>>
             ELSE /\ AttachSwitch(s, target)
                  /\ UNCHANGED attachCall
    /\ nextCall' = nextCall + 1
    /\ UNCHANGED <<clock, claimFile, lockHolder, pc, call, result>>
    /\ UNCHANGED otherThanAttach

\* Variant: attach leaves the claim on the previous team in place.
AttachReleasePrevious_KeepsClaim(s) ==
    /\ attachCall[s].step = "release"
    /\ UNCHANGED claimFiles
    /\ AttachSwitch(s, attachCall[s].target)
    /\ attachCall' = [attachCall EXCEPT ![s] = NoAttachCall]
    /\ UNCHANGED claimVars
    /\ UNCHANGED otherThanAttach

\* /team attach from the release of the previous team's claim to its end
AttachReleasePrevious(s) ==
    /\ attachCall[s].step = "release"
    /\ LET previous == activeTeamId[s]
       IN claimFiles' = [claimFiles EXCEPT ![previous] =
                            releaseTeamAttachClaim(s, claimFiles[previous], FALSE).file]
    /\ AttachSwitch(s, attachCall[s].target)
    /\ attachCall' = [attachCall EXCEPT ![s] = NoAttachCall]
    /\ UNCHANGED claimVars
    /\ UNCHANGED otherThanAttach

\* /team detach
HandleTeamDetach(s) ==
    /\ nextCall < MaxCommands
    /\ attachCall[s].step = "idle"
    /\ activeTeamId[s] # s
    /\ teammates = <<>>
    /\ claimFiles' = [claimFiles EXCEPT ![activeTeamId[s]] =
                         releaseTeamAttachClaim(s, claimFiles[activeTeamId[s]], FALSE).file]
    /\ activeTeamId' = [activeTeamId EXCEPT ![s] = s]
    /\ taskListId' = [taskListId EXCEPT ![s] = s]
    /\ UNCHANGED attachCall
    /\ nextCall' = nextCall + 1
    /\ UNCHANGED <<clock, claimFile, lockHolder, pc, call, result>>
    /\ UNCHANGED otherThanAttach

AttachInit ==
    /\ claimFiles = [t \in Teams |-> <<>>]
    /\ activeTeamId = [s \in Sessions |-> s]
    /\ taskListId = [s \in Sessions |-> s]
    /\ attachCall = [s \in Sessions |-> NoAttachCall]

NextAttach ==
    \/ \E s \in Sessions :
          \E target \in {"tX", "tY", s}, forceClaim \in BOOLEAN :
             HandleTeamAttach(s, target, forceClaim)
    \/ \E s \in Sessions : AttachReleasePrevious(s)
    \/ \E s \in Sessions : HandleTeamDetach(s)
    \/ TickFine
    \/ TickCoarse

NextClaim ==
    \/ \E s \in Sessions : CallAcquire(s)
    \/ \E s \in Sessions : CallHeartbeat(s)
    \/ \E s \in Sessions : CallRelease(s)
    \/ \E s \in Sessions : EnterLock(s)
    \/ \E s \in Sessions : Finish(s)
    \/ TickFine
    \/ TickCoarse

(***************************************************************************)
(*                              MODEL POLICY                               *)
(***************************************************************************)

MaxIdLen == 3          \* characters of a model id, the marker counted as one

\* A model id is a sequence of characters.  "M" stands for the run of
\* characters claude-sonnet-4 and "MU" for the same run with capitals; no end
\* of that run is also its beginning, so two occurrences never overlap.
IdChars == {"M", "MU", "-", ".", "_", ":", "5", "x", " "}

ModelIds == UNION {[1 .. n -> IdChars] : n \in 0 .. MaxIdLen}

SONNET4_DEPRECATED_MARKER == <<"M">>
SONNET45_ALLOWED_MARKERS == {<<"M", "-", "5">>, <<"M", ".", "5">>}

\* String.prototype.trim
RECURSIVE Trim(_)
Trim(str) ==
    IF str = <<>> THEN str
    ELSE IF Head(str) = " " THEN Trim(Tail(str))
    ELSE IF str[Len(str)] = " " THEN Trim(SubSeq(str, 1, Len(str) - 1))
    ELSE str

\* String.prototype.toLowerCase
ToLowerCase(str) == [i \in 1 .. Len(str) |-> IF str[i] = "MU" THEN "M" ELSE str[i]]

normalizeModelId(id) == ToLowerCase(Trim(id))

\* the positions at which marker occurs in value
Occurrences(value, marker) ==
    {i \in 1 .. (Len(value) - Len(marker) + 1) :
        SubSeq(value, i, i + Len(marker) - 1) = marker}

\* String.prototype.includes
Includes(value, marker) == Occurrences(value, marker) # {}

hasAnyMarker(value, markers) == \E marker \in markers : Includes(value, marker)

\* Variant: whatever follows the marker counts.
isDeprecatedTeammateModelId_AnySuffix(id) ==
    LET normalized == normalizeModelId(id) IN
    IF normalized = <<>> THEN FALSE
    ELSE IF ~Includes(normalized, SONNET4_DEPRECATED_MARKER) THEN FALSE
    ELSE IF hasAnyMarker(normalized, SONNET45_ALLOWED_MARKERS) THEN FALSE
    ELSE TRUE

isDeprecatedTeammateModelId(id) ==
    LET normalized == normalizeModelId(id) IN
    IF normalized = <<>> THEN FALSE
    ELSE IF ~Includes(normalized, SONNET4_DEPRECATED_MARKER) THEN FALSE
    ELSE IF hasAnyMarker(normalized, SONNET45_ALLOWED_MARKERS) THEN FALSE
    ELSE LET idx == CHOOSE i \in Occurrences(normalized, SONNET4_DEPRECATED_MARKER) :
                       \A j \in Occurrences(normalized, SONNET4_DEPRECATED_MARKER) : i <= j
             at == idx + Len(SONNET4_DEPRECATED_MARKER)
         IN IF at > Len(normalized) THEN TRUE
            ELSE normalized[at] \in {"-", "_", ".", ":"}

\* An optional string is <<>> when undefined and <<text>> otherwise.
Undefined == <<>>
Defined(text) == <<text>>

MaxOverrideLen == 3    \* characters of a --model override, the marker counted as one

\* The characters of an override: the marker, the separator of provider and
\* model id, a blank, an ordinary character, and those of the allowed extension.
OverrideChars == {"M", "/", " ", "x", "5", "-"}

OverrideTexts == UNION {[1 .. n -> OverrideChars] : n \in 0 .. MaxOverrideLen}

LeaderProviders == {Undefined, Defined(<<>>), Defined(<<" ">>), Defined(<<"x">>),
                    Defined(<<" ", "x">>)}

LeaderModelIds == {Undefined, Defined(<<>>), Defined(<<" ">>), Defined(<<"x">>),
                   Defined(<<"M">>), Defined(<<"MU", " ">>), Defined(<<"M", "-", "5">>),
                   Defined(<<"M", "5">>)}

SelectionInputs ==
    [modelOverride : {Undefined} \cup {Defined(text) : text \in OverrideTexts},
     leaderProvider : LeaderProviders,
     leaderModelId : LeaderModelIds]

NoSelectionInput ==
    [modelOverride |-> Undefined, leaderProvider |-> Undefined, leaderModelId |-> Undefined]

trimOrUndefined(value) ==
    IF value = Undefined THEN Undefined
    ELSE LET trimmed == Trim(value[1])
         IN IF Len(trimmed) > 0 THEN Defined(trimmed) ELSE Undefined

\* String.prototype.indexOf, positions counted from 1 and 0 for "not found"
IndexOf(str, ch) ==
    IF \E i \in 1 .. Len(str) : str[i] = ch
    THEN CHOOSE i \in 1 .. Len(str) :
             str[i] = ch /\ \A j \in 1 .. (i - 1) : str[j] # ch
    ELSE 0

\* the two shapes of ResolveTeammateModelResult; the error text quotes the override
Resolved(source, provider, id, warnings) ==
    [ok |-> TRUE, source |-> source, provider |-> provider, modelId |-> id,
     warnings |-> warnings, reason |-> "", error |-> <<>>]
Rejected(reason, override) ==
    [ok |-> FALSE, source |-> "", provider |-> Undefined, modelId |-> Undefined,
     warnings |-> <<>>, reason |-> reason, error |-> override]

\* Variant: an override that ends with its "/" names a provider and no model.
resolveProviderOverride_ProviderOnly(override, slashIdx) ==
    LET provider == Trim(SubSeq(override, 1, slashIdx - 1))
        id == Trim(SubSeq(override, slashIdx + 1, Len(override)))
    IN IF provider = <<>> THEN Rejected("invalid_override", override)
       ELSE IF id = <<>> THEN Resolved("override", Defined(provider), Undefined, <<>>)
       ELSE IF isDeprecatedTeammateModelId(id) THEN Rejected("deprecated_override", override)
       ELSE Resolved("override", Defined(provider), Defined(id), <<>>)

\* the branch "slashIdx >= 0": <provider>/<modelId>
resolveProviderOverride(override, slashIdx) ==
    LET provider == Trim(SubSeq(override, 1, slashIdx - 1))
        id == Trim(SubSeq(override, slashIdx + 1, Len(override)))
    IN IF provider = <<>> \/ id = <<>> THEN Rejected("invalid_override", override)
       ELSE IF isDeprecatedTeammateModelId(id) THEN Rejected("deprecated_override", override)
       ELSE Resolved("override", Defined(provider), Defined(id), <<>>)

\* Variant: the leader's provider is taken without looking at it, and no warning
\* is recorded.
resolveModelOnlyOverride_NoWarning(override, input) ==
    IF isDeprecatedTeammateModelId(override) THEN Rejected("deprecated_override", override)
    ELSE Resolved("override", trimOrUndefined(input.leaderProvider), Defined(override), <<>>)

\* the branch of an override without "/": a model id alone
resolveModelOnlyOverride(override, input) ==
    IF isDeprecatedTeammateModelId(override) THEN Rejected("deprecated_override", override)
    ELSE LET leaderProvider == trimOrUndefined(input.leaderProvider)
             warnings == IF leaderProvider = Undefined
                         THEN <<"provided without a provider">>
                         ELSE <<>>
         IN Resolved("override", leaderProvider, Defined(override), warnings)

\* Variant: the leader's model is inherited whatever it is.
resolveWithoutOverride_InheritsAny(input) ==
    LET leaderModelId == trimOrUndefined(input.leaderModelId)
        leaderProvider == trimOrUndefined(input.leaderProvider)
    IN IF leaderModelId # Undefined
       THEN Resolved("inherit_leader", leaderProvider, leaderModelId, <<>>)
       ELSE Resolved("default", Undefined, Undefined, <<>>)

\* no override: the leader's model, or the defaults of the runtime
resolveWithoutOverride(input) ==
    LET leaderModelId == trimOrUndefined(input.leaderModelId)
        leaderProvider == trimOrUndefined(input.leaderProvider)
    IN IF leaderModelId # Undefined /\ ~isDeprecatedTeammateModelId(leaderModelId[1])
       THEN Resolved("inherit_leader", leaderProvider, leaderModelId, <<>>)
       ELSE Resolved("default", Undefined, Undefined, <<>>)

\* Variant: a blank override is reported as a malformed one.
resolveTeammateModelSelection_BlankIsError(input) ==
    LET override == trimOrUndefined(input.modelOverride)
    IN IF override # Undefined
       THEN LET slashIdx == IndexOf(override[1], "/")
            IN IF slashIdx >= 1
               THEN resolveProviderOverride(override[1], slashIdx)
               ELSE resolveModelOnlyOverride(override[1], input)
       ELSE IF input.modelOverride # Undefined
       THEN Rejected("blank_override", input.modelOverride[1])
       ELSE resolveWithoutOverride(input)

resolveTeammateModelSelection(input) ==
    LET override == trimOrUndefined(input.modelOverride)
    IN IF override # Undefined
       THEN LET slashIdx == IndexOf(override[1], "/")
            IN IF slashIdx >= 1
               THEN resolveProviderOverride(override[1], slashIdx)
               ELSE resolveModelOnlyOverride(override[1], input)
       ELSE resolveWithoutOverride(input)

PolicyInit ==
    /\ modelId = <<>>
    /\ deprecated = <<>>
    /\ selectionInput = NoSelectionInput
    /\ selection = <<>>

\* isDeprecatedTeammateModelId is called on the id
CheckModelId ==
    /\ deprecated = <<>>
    /\ deprecated' = <<isDeprecatedTeammateModelId(modelId)>>
    /\ UNCHANGED <<modelId, selectionInput, selection>>
    /\ UNCHANGED <<claimVars, rpcVars, taskVars, toolVars, steerVars, metaVars, attachVars,
            widgetVars, lineVars, planCallVars, codecVars>>

(***************************************************************************)
(*                             PROTOCOL CODEC                              *)
(***************************************************************************)

\* A JSON value as the parsers look at it: what typeof says of it, whether it
\* is falsy, and the properties the parsers read.  A property is absent, a
\* value that is no string, or a string.
Absent == [typeof |-> "undefined", value |-> ""]
NotAString == [typeof |-> "number", value |-> ""]
Str(text) == [typeof |-> "string", value |-> text]

EnvelopeTypes ==
    {"idle_notification", "shutdown_approved", "shutdown_rejected",
     "plan_approval_request", "peer_dm_sent", "task_assignment", "shutdown_request",
     "set_session_name", "abort_request", "plan_approved", "plan_rejected"}

\* the properties the parsers read; timestamp stands for every property that
\* is only copied when it is a string (reason, feedback, subject, ...)
EnvelopeFields == {"requestId", "from", "taskId", "name", "plan", "to", "summary", "timestamp"}

TypeValues == {Absent, NotAString, Str("note")} \cup {Str(t) : t \in EnvelopeTypes}
FieldValues == {Absent, NotAString, Str("v")}

NoFields == [f \in EnvelopeFields |-> Absent]

\* what JSON.parse can return: null, a number or a string (falsy or not), an
\* array, an object
JsonNull == [typeof |-> "object", falsy |-> TRUE, type |-> Absent, fields |-> NoFields]
JsonScalars ==
    {[typeof |-> t, falsy |-> b, type |-> Absent, fields |-> NoFields] :
        t \in {"number", "string", "boolean"}, b \in BOOLEAN}
JsonArray == [typeof |-> "object", falsy |-> FALSE, type |-> Absent, fields |-> NoFields]
JsonObjects ==
    [typeof : {"object"}, falsy : {FALSE}, type : TypeValues,
     fields : [EnvelopeFields -> FieldValues]]

\* a text is either the serialisation of a JSON value or no JSON at all
Malformed == [json |-> FALSE, value |-> JsonNull]
Texts ==
    {Malformed} \cup
    {[json |-> TRUE, value |-> v] : v \in {JsonNull, JsonArray} \cup JsonScalars \cup JsonObjects}

safeParseJson(text) == IF text.json THEN text.value ELSE JsonNull

\* "!obj || typeof obj !== 'object'"
NotAnObject(obj) == obj.falsy \/ obj.typeof # "object"

\* typeof v === "string" ? v : fallback, and the same with undefined as fallback
StringOr(v, fallback) == IF v.typeof = "string" THEN v.value ELSE fallback
StringOrUndefined(v) == IF v.typeof = "string" THEN Defined(v.value) ELSE Undefined

\* Variant: an idle notification without a sender is dropped.
isIdleNotification_RequiresFrom(text) ==
    LET obj == safeParseJson(text) IN
    IF NotAnObject(obj) THEN <<>>
    ELSE IF obj.type # Str("idle_notification") THEN <<>>
    ELSE IF obj.fields["from"].typeof # "string" THEN <<>>
    ELSE <<[from |-> obj.fields["from"].value,
            timestamp |-> StringOrUndefined(obj.fields["timestamp"])]>>

isIdleNotification(text) ==
    LET obj == safeParseJson(text) IN
    IF NotAnObject(obj) THEN <<>>
    ELSE IF obj.type # Str("idle_notification") THEN <<>>
    ELSE <<[from |-> StringOr(obj.fields["from"], "unknown"),
            timestamp |-> StringOrUndefined(obj.fields["timestamp"])]>>

isShutdownApproved(text) ==
    LET obj == safeParseJson(text) IN
    IF NotAnObject(obj) THEN <<>>
    ELSE IF obj.type # Str("shutdown_approved") THEN <<>>
    ELSE IF obj.fields["requestId"].typeof # "string" THEN <<>>
    ELSE <<[from |-> StringOr(obj.fields["from"], "unknown"),
            requestId |-> obj.fields["requestId"].value,
            timestamp |-> StringOrUndefined(obj.fields["timestamp"])]>>

isShutdownRejected(text) ==
    LET obj == safeParseJson(text) IN
    IF NotAnObject(obj) THEN <<>>
    ELSE IF obj.type # Str("shutdown_rejected") THEN <<>>
    ELSE IF obj.fields["requestId"].typeof # "string" THEN <<>>
    ELSE <<[from |-> StringOr(obj.fields["from"], "unknown"),
            requestId |-> obj.fields["requestId"].value,
            timestamp |-> StringOrUndefined(obj.fields["timestamp"])]>>

isPlanApprovalRequest(text) ==
    LET obj == safeParseJson(text) IN
    IF NotAnObject(obj) THEN <<>>
    ELSE IF obj.type # Str("plan_approval_request") THEN <<>>
    ELSE IF obj.fields["requestId"].typeof # "string" THEN <<>>
    ELSE IF obj.fields["from"].typeof # "string" THEN <<>>
    ELSE IF obj.fields["plan"].typeof # "string" THEN <<>>
    ELSE <<[requestId |-> obj.fields["requestId"].value,
            from |-> obj.fields["from"].value,
            plan |-> obj.fields["plan"].value,
            taskId |-> StringOrUndefined(obj.fields["taskId"]),
            timestamp |-> StringOrUndefined(obj.fields["timestamp"])]>>

isPeerDmSent(text) ==
    LET obj == safeParseJson(text) IN
    IF NotAnObject(obj) THEN <<>>
    ELSE IF obj.type # Str("peer_dm_sent") THEN <<>>
    ELSE IF obj.fields["from"].typeof # "string" THEN <<>>
    ELSE IF obj.fields["to"].typeof # "string" THEN <<>>
    ELSE IF obj.fields["summary"].typeof # "string" THEN <<>>
    ELSE <<[from |-> obj.fields["from"].value,
            to |-> obj.fields["to"].value,
            summary |-> obj.fields["summary"].value,
            timestamp |-> StringOrUndefined(obj.fields["timestamp"])]>>

isTaskAssignmentMessage(text) ==
    LET obj == safeParseJson(text) IN
    IF NotAnObject(obj) THEN <<>>
    ELSE IF obj.type # Str("task_assignment") THEN <<>>
    ELSE IF obj.fields["taskId"].typeof # "string" THEN <<>>
    ELSE <<[taskId |-> obj.fields["taskId"].value]>>

isShutdownRequestMessage(text) ==
    LET obj == safeParseJson(text) IN
    IF NotAnObject(obj) THEN <<>>
    ELSE IF obj.type # Str("shutdown_request") THEN <<>>
    ELSE IF obj.fields["requestId"].typeof # "string" THEN <<>>
    ELSE <<[requestId |-> obj.fields["requestId"].value,
            from |-> StringOrUndefined(obj.fields["from"]),
            timestamp |-> StringOrUndefined(obj.fields["timestamp"])]>>

isSetSessionNameMessage(text) ==
    LET obj == safeParseJson(text) IN
    IF NotAnObject(obj) THEN <<>>
    ELSE IF obj.type # Str("set_session_name") THEN <<>>
    ELSE IF obj.fields["name"].typeof # "string" THEN <<>>
    ELSE <<[name |-> obj.fields["name"].value]>>

isAbortRequestMessage(text) ==
    LET obj == safeParseJson(text) IN
    IF NotAnObject(obj) THEN <<>>
    ELSE IF obj.type # Str("abort_request") THEN <<>>
    ELSE IF obj.fields["requestId"].typeof # "string" THEN <<>>
    ELSE <<[requestId |-> obj.fields["requestId"].value,
            from |-> StringOrUndefined(obj.fields["from"]),
            taskId |-> StringOrUndefined(obj.fields["taskId"]),
            timestamp |-> StringOrUndefined(obj.fields["timestamp"])]>>

isPlanApprovedMessage(text) ==
    LET obj == safeParseJson(text) IN
    IF NotAnObject(obj) THEN <<>>
    ELSE IF obj.type # Str("plan_approved") THEN <<>>
    ELSE IF obj.fields["requestId"].typeof # "string" \/ obj.fields["from"].typeof # "string"
    THEN <<>>
    ELSE <<[requestId |-> obj.fields["requestId"].value,
            from |-> obj.fields["from"].value,
            timestamp |-> StringOr(obj.fields["timestamp"], "")]>>

isPlanRejectedMessage(text) ==
    LET obj == safeParseJson(text) IN
    IF NotAnObject(obj) THEN <<>>
    ELSE IF obj.type # Str("plan_rejected") THEN <<>>
    ELSE IF obj.fields["requestId"].typeof # "string" \/ obj.fields["from"].typeof # "string"
    THEN <<>>
    ELSE <<[requestId |-> obj.fields["requestId"].value,
            from |-> obj.fields["from"].value,
            timestamp |-> StringOr(obj.fields["timestamp"], "")]>>

\* every parser, by the type of the envelope it reads
ParseAll(text) ==
    [t \in EnvelopeTypes |->
        CASE t = "idle_notification" -> isIdleNotification(text)
          [] t = "shutdown_approved" -> isShutdownApproved(text)
          [] t = "shutdown_rejected" -> isShutdownRejected(text)
          [] t = "plan_approval_request" -> isPlanApprovalRequest(text)
          [] t = "peer_dm_sent" -> isPeerDmSent(text)
          [] t = "task_assignment" -> isTaskAssignmentMessage(text)
          [] t = "shutdown_request" -> isShutdownRequestMessage(text)
          [] t = "set_session_name" -> isSetSessionNameMessage(text)
          [] t = "abort_request" -> isAbortRequestMessage(text)
          [] t = "plan_approved" -> isPlanApprovedMessage(text)
          [] t = "plan_rejected" -> isPlanRejectedMessage(text)]

CodecInit ==
    /\ mailText = Malformed
    /\ parsed = <<>>

\* a mailbox message is read: each parser is tried on its text
ParseMessage ==
    /\ parsed = <<>>
    /\ parsed' = <<ParseAll(mailText)>>
    /\ UNCHANGED mailText
    /\ UNCHANGED <<claimVars, rpcVars, taskVars, toolVars, steerVars, metaVars, attachVars,
            widgetVars, lineVars, planCallVars,
                   policyVars>>

(***************************************************************************)
(*                              TEAMMATE RPC                               *)
(***************************************************************************)

\* Bounds of the teammate-RPC model.
MaxRequests == 2       \* requests sent in one behaviour
MaxTextLen == 1        \* text deltas kept in lastAssistantText

RequestIds == 0 .. (MaxRequests - 1)
\* A TeammateRpc encapsulates one child process: start() is called once on a
\* new object, and member_kill drops the object after stop().
Children == {1}

NoChild == [state |-> "none", killed |-> FALSE, sigterm |-> FALSE,
            sigkill |-> FALSE, errored |-> FALSE, exitCode |-> -1]

\* Lines a child can print: a well-formed response echoing an id, the agent
\* events the object reacts to, any other event, and text that is not JSON.
EventLines == {"agent_start", "agent_end", "text_delta", "other_event"}

\* Microtasks run before the next callback: a stop() whose abort has settled
\* continues before any other event is handled.
ReadyStops == {i \in stops : i \notin pending}
NoReadyStop == ReadyStops = {}

\* reject every pending request (close and error handlers)
RejectAllPending(how) ==
    /\ outcomes' = [i \in RequestIds |->
                      IF i \in pending THEN Append(outcomes[i], how) ELSE outcomes[i]]
    /\ pending' = {}

\* subprocess.kill(signal) on child p: delivered only while the child runs;
\* a delivered signal sets subprocess.killed
Kill(p, signal) ==
    IF child[p].state = "running"
    THEN [child EXCEPT ![p].killed = TRUE,
                       ![p].sigterm = @ \/ signal = "SIGTERM",
                       ![p].sigkill = @ \/ signal = "SIGKILL"]
    ELSE child

\* start(): refuses when this.proc is set; spawns, installs the handlers and
\* arms the boot timer.
Start ==
    /\ NoReadyStop
    /\ proc = 0
    /\ \E p \in Children :
          /\ child[p].state = "none"
          /\ \A q \in Children : q < p => child[q].state # "none"
          /\ proc' = p
          /\ child' = [child EXCEPT ![p].state = "running"]
    /\ bootTimers' = bootTimers + 1
    /\ UNCHANGED <<status, lastError, lastAssistantText, pending, nextId, killTimers,
                   reqTimers, stops, outcomes, escalationDue, stopThrew>>
    /\ lastResponse' = -1
    /\ UNCHANGED otherThanRpc

\* start() after its 120 ms wait
BootDone ==
    /\ NoReadyStop
    /\ bootTimers > 0
    /\ bootTimers' = bootTimers - 1
    /\ status' = "idle"
    /\ UNCHANGED <<lastError, lastAssistantText, proc, pending, nextId, child,
                   killTimers, reqTimers, stops, outcomes, escalationDue, stopThrew>>
    /\ lastResponse' = -1
    /\ UNCHANGED otherThanRpc

\* proc.on("error")
ProcError(p) ==
    /\ NoReadyStop
    /\ child[p].state = "running"
    /\ ~child[p].errored
    /\ child' = [child EXCEPT ![p].errored = TRUE]
    /\ status' = "error"
    /\ lastError' = "process_error"
    /\ RejectAllPending("process_error")
    /\ UNCHANGED <<lastAssistantText, proc, nextId, bootTimers, killTimers, reqTimers,
                   stops, escalationDue, stopThrew>>
    /\ lastResponse' = -1
    /\ UNCHANGED otherThanRpc

\* Variant: the close handler leaves the pending requests alone.
ProcClose_KeepsPending(p, code) ==
    /\ NoReadyStop
    /\ child[p].state = "running"
    /\ child' = [child EXCEPT ![p].state = "closed", ![p].exitCode = code]
    /\ status' = IF code = 0 THEN "stopped" ELSE "error"
    /\ lastError' = IF code # 0 THEN "exit_code" ELSE lastError
    /\ UNCHANGED <<lastAssistantText, proc, pending, nextId, bootTimers, killTimers,
                   reqTimers, stops, outcomes, escalationDue, stopThrew>>
    /\ lastResponse' = -1
    /\ UNCHANGED otherThanRpc

\* proc.on("close"); code 1 stands for every code other than 0, null included
ProcClose(p, code) ==
    /\ NoReadyStop
    /\ child[p].state = "running"
    /\ child' = [child EXCEPT ![p].state = "closed", ![p].exitCode = code]
    /\ status' = IF code = 0 THEN "stopped" ELSE "error"
    /\ lastError' = IF code # 0 THEN "exit_code" ELSE lastError
    /\ RejectAllPending("process_exit")
    /\ UNCHANGED <<lastAssistantText, proc, nextId, bootTimers, killTimers, reqTimers,
                   stops, escalationDue, stopThrew>>
    /\ lastResponse' = -1
    /\ UNCHANGED otherThanRpc

\* send(cmd): the part up to the returned promise
SendRequest ==
    /\ proc # 0
    /\ nextId < MaxRequests
    /\ nextId' = nextId + 1
    /\ pending' = pending \cup {nextId}
    /\ reqTimers' = reqTimers \cup {nextId}

\* prompt / steer / followUp / getState / setSessionName / abort, called from outside
Send ==
    /\ NoReadyStop
    /\ SendRequest
    /\ UNCHANGED <<status, lastError, lastAssistantText, proc, child, bootTimers,
                   killTimers, stops, outcomes, escalationDue, stopThrew>>
    /\ lastResponse' = -1
    /\ UNCHANGED otherThanRpc

\* Variant: the timer rejects without looking whether the request is still pending.
RequestTimeout_NoPendingCheck(id) ==
    /\ NoReadyStop
    /\ id \in reqTimers
    /\ reqTimers' = reqTimers \ {id}
    /\ pending' = pending \ {id}
    /\ outcomes' = [outcomes EXCEPT ![id] = Append(@, "timeout")]
    /\ UNCHANGED <<status, lastError, lastAssistantText, proc, nextId, child, bootTimers,
                   killTimers, stops, escalationDue, stopThrew>>
    /\ lastResponse' = -1
    /\ UNCHANGED otherThanRpc

\* the 60 s timer of request id
RequestTimeout(id) ==
    /\ NoReadyStop
    /\ id \in reqTimers
    /\ reqTimers' = reqTimers \ {id}
    /\ IF id \in pending
       THEN /\ pending' = pending \ {id}
            /\ outcomes' = [outcomes EXCEPT ![id] = Append(@, "timeout")]
       ELSE UNCHANGED <<pending, outcomes>>
    /\ UNCHANGED <<status, lastError, lastAssistantText, proc, nextId, child, bootTimers,
                   killTimers, stops, escalationDue, stopThrew>>
    /\ lastResponse' = -1
    /\ UNCHANGED otherThanRpc

\* handleLine: a structurally valid response with a string id
HandleResponse(p, id) ==
    /\ NoReadyStop
    /\ child[p].state = "running"
    /\ IF id \in pending
       THEN /\ pending' = pending \ {id}
            /\ outcomes' = [outcomes EXCEPT ![id] = Append(@, "resolved")]
       ELSE UNCHANGED <<pending, outcomes>>
    /\ lastResponse' = id
    /\ UNCHANGED <<status, lastError, lastAssistantText, proc, nextId, child, bootTimers,
                   killTimers, reqTimers, stops, escalationDue, stopThrew>>
    /\ UNCHANGED otherThanRpc

\* handleLine: an agent event
HandleEvent(p, type) ==
    /\ NoReadyStop
    /\ child[p].state = "running"
    /\ type = "text_delta" => lastAssistantText < MaxTextLen
    /\ status' = CASE type = "agent_start" -> "streaming"
                   [] type = "agent_end" -> "idle"
                   [] OTHER -> status
    /\ lastAssistantText' = CASE type = "agent_start" -> 0
                              [] type = "text_delta" -> lastAssistantText + 1
                              [] OTHER -> lastAssistantText
    /\ UNCHANGED <<lastError, proc, pending, nextId, child, bootTimers, killTimers,
                   reqTimers, stops, outcomes, escalationDue, stopThrew>>
    /\ lastResponse' = -1
    /\ UNCHANGED otherThanRpc

\* ---- handleLine on any line of stdout ----

\* A line of stdout: blank, text that is no JSON, the JSON of null, of a number
\* or string, or of an object (an array is an object without these properties).
\* Of an object the properties handleLine reads are kept.
Bool == [typeof |-> "boolean", value |-> ""]
LineTypes ==
    {Absent, NotAString, Str("response"), Str("agent_start"), Str("agent_end"),
     Str("message_update"), Str("turn_end")}
\* the id of a response: absent, no string, or the text of a request id (that of
\* MaxRequests is never issued)
LineIds ==
    {[typeof |-> "undefined", req |-> -1], [typeof |-> "number", req |-> -1]}
        \cup {[typeof |-> "string", req |-> i] : i \in 0 .. MaxRequests}
\* ev.assistantMessageEvent: "undefined" when the property is absent
MessageEvents == {"undefined", "text_delta", "text_end"}

NoLineObject ==
    [type |-> Absent, command |-> Absent, success |-> Absent,
     id |-> [typeof |-> "undefined", req |-> -1], error |-> Absent,
     assistantMessageEvent |-> "undefined"]

LineObjects ==
    {o \in [type : LineTypes, command : {Absent, Str("prompt")}, success : {Absent, Bool},
            id : LineIds, error : {Absent, NotAString, Str("failed")},
            assistantMessageEvent : MessageEvents] :
        o.assistantMessageEvent # "undefined" => o.type = Str("message_update")}

StdoutLines ==
    {[shape |-> sh, object |-> NoLineObject] : sh \in {"blank", "garbage", "null", "scalar"}}
        \cup {[shape |-> "object", object |-> o] : o \in LineObjects}

\* safeParseJsonLine(line) === null
ParsesToNull(line) == line.shape \in {"garbage", "null"}

isRecord(line) == line.shape = "object"

isRpcResponse(line) ==
    IF ~isRecord(line) THEN FALSE
    ELSE IF line.object.type # Str("response") THEN FALSE
    ELSE IF line.object.command.typeof # "string" THEN FALSE
    ELSE IF line.object.success.typeof # "boolean" THEN FALSE
    ELSE IF line.object.id.typeof \notin {"undefined", "string"} THEN FALSE
    ELSE IF line.object.error.typeof \notin {"undefined", "string"} THEN FALSE
    ELSE TRUE

\* Variant: an object of type "response" is no event.
isAgentEvent_NotAResponse(line) ==
    IF ~isRecord(line) THEN FALSE
    ELSE line.object.type.typeof = "string" /\ line.object.type # Str("response")

isAgentEvent(line) ==
    IF ~isRecord(line) THEN FALSE
    ELSE line.object.type.typeof = "string"

LinesInit == lineOutcome = "none"

\* handleLine(line), the whole of it.  lineOutcome records how it ended:
\* "ignored" (an early return), "resolved" (a pending request was resolved),
\* "listeners" (the event listeners were called) or "threw" (reading
\* ame.type of an absent assistantMessageEvent raised before they were).
HandleLine(p, line) ==
    /\ NoReadyStop
    /\ child[p].state = "running"
    /\ LET o == line.object
           isDelta == o.type = Str("message_update") /\ o.assistantMessageEvent = "text_delta"
       IN IF line.shape = "blank" \/ ParsesToNull(line)
          THEN /\ lineOutcome' = "ignored"
               /\ lastResponse' = -1
               /\ UNCHANGED <<status, lastAssistantText, pending, outcomes>>
          ELSE IF isRpcResponse(line)
          THEN IF o.id.typeof # "string"
               THEN /\ lineOutcome' = "ignored"
                    /\ lastResponse' = -1
                    /\ UNCHANGED <<status, lastAssistantText, pending, outcomes>>
               ELSE IF o.id.req \notin pending
               THEN /\ lineOutcome' = "ignored"
                    /\ lastResponse' = o.id.req
                    /\ UNCHANGED <<status, lastAssistantText, pending, outcomes>>
               ELSE /\ lineOutcome' = "resolved"
                    /\ lastResponse' = o.id.req
                    /\ pending' = pending \ {o.id.req}
                    /\ outcomes' = [outcomes EXCEPT ![o.id.req] = Append(@, "resolved")]
                    /\ UNCHANGED <<status, lastAssistantText>>
          ELSE IF ~isAgentEvent(line)
          THEN /\ lineOutcome' = "ignored"
               /\ lastResponse' = -1
               /\ UNCHANGED <<status, lastAssistantText, pending, outcomes>>
          ELSE /\ isDelta => lastAssistantText < MaxTextLen
               /\ status' = CASE o.type = Str("agent_start") -> "streaming"
                              [] o.type = Str("agent_end") -> "idle"
                              [] OTHER -> status
               /\ lastAssistantText' = CASE o.type = Str("agent_start") -> 0
                                         [] isDelta -> lastAssistantText + 1
                                         [] OTHER -> lastAssistantText
               /\ lineOutcome' =
                     IF o.type = Str("message_update") /\ o.assistantMessageEvent = "undefined"
                     THEN "threw" ELSE "listeners"
               /\ lastResponse' = -1
               /\ UNCHANGED <<pending, outcomes>>
    /\ UNCHANGED <<lastError, proc, nextId, child, bootTimers, killTimers, reqTimers, stops,
                   escalationDue, stopThrew>>
    /\ UNCHANGED <<claimVars, taskVars, toolVars, steerVars, metaVars, attachVars,
            widgetVars, planCallVars,
                   codecVars, policyVars>>

\* stop() up to "await this.abort()"; with this.proc unset it returns at once
StopCall ==
    /\ NoReadyStop
    /\ SendRequest
    /\ stops' = stops \cup {nextId}
    /\ UNCHANGED <<status, lastError, lastAssistantText, proc, child, bootTimers,
                   killTimers, outcomes, escalationDue, stopThrew>>
    /\ lastResponse' = -1
    /\ UNCHANGED otherThanRpc

\* stop() after the abort has settled either way: SIGTERM, arm the 1 s timer,
\* drop the handle, set the status.  this.proc.kill raises when another stop()
\* has dropped the handle meanwhile.
StopResume(id) ==
    /\ id \in ReadyStops
    /\ stops' = stops \ {id}
    /\ IF proc = 0
       THEN /\ stopThrew' = TRUE
            /\ UNCHANGED <<status, proc, child, killTimers>>
       ELSE /\ child' = Kill(proc, "SIGTERM")
            /\ killTimers' = killTimers \cup {proc}
            /\ proc' = 0
            /\ status' = "stopped"
            /\ UNCHANGED stopThrew
    /\ UNCHANGED <<lastError, lastAssistantText, pending, nextId, bootTimers, reqTimers,
                   outcomes, escalationDue>>
    /\ lastResponse' = -1
    /\ UNCHANGED otherThanRpc

\* the 1 s timer armed by the stop() that sent SIGTERM to child p:
\*   if (this.proc && !this.proc.killed) this.proc.kill("SIGKILL")
KillTimer(p) ==
    /\ NoReadyStop
    /\ p \in killTimers
    /\ killTimers' = killTimers \ {p}
    /\ escalationDue' = IF child[p].state = "running"
                        THEN escalationDue \cup {p} ELSE escalationDue
    /\ child' = IF proc # 0 /\ ~child[proc].killed
                THEN Kill(proc, "SIGKILL") ELSE child
    /\ UNCHANGED <<status, lastError, lastAssistantText, proc, pending, nextId,
                   bootTimers, reqTimers, stops, outcomes, stopThrew>>
    /\ lastResponse' = -1
    /\ UNCHANGED otherThanRpc

RpcInit ==
    /\ status = "starting"
    /\ lastError = "null"
    /\ lastAssistantText = 0
    /\ proc = 0
    /\ pending = {}
    /\ nextId = 0
    /\ child = [p \in Children |-> NoChild]
    /\ bootTimers = 0
    /\ killTimers = {}
    /\ reqTimers = {}
    /\ stops = {}
    /\ outcomes = [i \in RequestIds |-> <<>>]
    /\ escalationDue = {}
    /\ stopThrew = FALSE
    /\ lastResponse = -1

NextRpc ==
    \/ Start
    \/ BootDone
    \/ \E p \in Children : ProcError(p)
    \/ \E p \in Children, code \in {0, 1} : ProcClose(p, code)
    \/ Send
    \/ \E id \in RequestIds : RequestTimeout(id)
    \/ \E p \in Children, id \in RequestIds : HandleResponse(p, id)
    \/ \E p \in Children, type \in EventLines : HandleEvent(p, type)
    \/ StopCall
    \/ \E id \in RequestIds : StopResume(id)
    \/ \E p \in Children : KillTimer(p)

(***************************************************************************)
(*                      TEAMMATE RPC: PROPERTIES                           *)
(***************************************************************************)

TerminalStatuses == {"stopped", "error"}

\* C4: stopped and error are sinks: once the status is stopped or error no
\* event, callback, boot delay or stop call changes it.
C4_TerminalSinks ==
    [][(status \in TerminalStatuses) => (status' = status)]_vars

LifecycleEdges ==
    {<<"starting", "idle">>, <<"idle", "streaming">>, <<"streaming", "idle">>}
    \cup {<<a, b>> : a \in {"starting", "idle", "streaming"}, b \in TerminalStatuses}

\* C5: the status starts at starting and every change of it is an edge of
\* starting -> idle <-> streaming -> stopped|error.
C5_LifecycleOnly ==
    /\ status = "starting"
    /\ [][(status' # status) => (<<status, status'>> \in LifecycleEdges)]_vars

Settled(i) == Len(outcomes[i])

C7_SigkillAfterTimer ==
    \A p \in escalationDue : child[p].sigkill

\* C21: when the child closes, every request still pending is rejected with
\* the process-exit error and none stays pending; the status becomes stopped
\* for exit code 0, and error with lastError set for any other code.
C21_CloseRejectsPending ==
    [][\A p \in Children :
          (child[p].state = "running" /\ child'[p].state = "closed") =>
             /\ pending' = {}
             /\ \A i \in RequestIds :
                   outcomes'[i] = IF i \in pending
                                  THEN Append(outcomes[i], "process_exit")
                                  ELSE outcomes[i]
             /\ IF child'[p].exitCode = 0
                THEN status' = "stopped" /\ lastError' = lastError
                ELSE status' = "error" /\ lastError' = "exit_code"
      ]_vars

\* The child exited with a code other than 0 while a request was pending.
C21_Witness ==
    \E p \in Children, i \in RequestIds :
        /\ child[p].state = "closed" /\ child[p].exitCode = 1
        /\ outcomes[i] = <<"process_exit">>
        /\ pending = {}
        /\ status = "error" /\ lastError = "exit_code"

\* C20: stop is idempotent: a stop call that ends after another stop of the
\* same object sends no signal, changes no status, and no stop call raises.
C20_StopIdempotent ==
    /\ [](~stopThrew)
    /\ [][\A id \in RequestIds :
            (id \in stops /\ id \notin stops' /\ proc = 0)
            => (child' = child /\ status' = status)
      ]_vars


(***************************************************************************)
(*               TASK LIST, TEAMS TOOL, QUALITY-GATE REMEDIATION           *)
(***************************************************************************)

\* Bounds of the task model.
MaxUserTasks == 1      \* tasks created other than follow-ups
MaxOps == 3            \* task completions and tool calls in one behaviour

Workers == {"w1"}
\* the names the teams tool names workers by itself: agent1, agent2, ...
AgentNames == <<"agent1", "agent2", "agent3", "agent4">>
LeadName == "team-lead"
Unset == -1            \* a metadata timestamp that is absent

TaskStatuses == {"pending", "in_progress", "completed"}
FailureActions == {"warn", "followup", "reopen", "reopen_followup"}
FollowupOwners == {"member", "lead", "none"}
\* maxReopensPerTask: 0 disables reopening, 2 is the value of scenario S4
MaxReopensChoices == {0, 1, 2}

\* Ids a behaviour can use: every completion can bring one follow-up task.
TaskIds == 1 .. (MaxUserTasks + MaxOps)

\* A subject is its text up to the parts the remediation loop composes:
\* the "Quality gate failed:" prefix and the "(task #<id>)" marker.
PlainSubject == [prefix |-> "", marker |-> 0]
FollowupSubject(origId) == [prefix |-> "Quality gate failed:", marker |-> origId]

NoRequest == [taskId |-> 0, status |-> ""]

GetTask(id) == IF id \in 1 .. Len(tasks) THEN <<tasks[id]>> ELSE <<>>

\* metadata stamps of unassignment and reassignment, absent on a new task
NoStamp == [at |-> Unset, by |-> "", detail |-> ""]

\* createTask({subject, description, owner}): fresh id, pending, no dependencies
NewTask(subject, owner) ==
    [id |-> Len(tasks) + 1, subject |-> subject, status |-> "pending",
     owner |-> owner, blockedBy |-> <<>>, blocks |-> <<>>,
     completedAt |-> Unset, reopenedAt |-> Unset,
     reopenedByQualityGateCount |-> 0, qualityGateStatus |-> "",
     unassigned |-> NoStamp, reassigned |-> NoStamp]

\* updateTask(id, f) on a list: the list with f applied to the task, if it exists
UpdateTask(list, id, f(_)) ==
    IF id \in 1 .. Len(list) THEN [list EXCEPT ![id] = f(list[id])] ELSE list

SeqToSet(q) == {q[i] : i \in 1 .. Len(q)}

\* every name with a task-list mailbox
MailboxNames == Workers \cup SeqToSet(AgentNames) \cup {LeadName, "w-1"}

\* isTaskBlocked: some task it depends on, directly or not, is not completed.
\* Dependencies always point to older tasks here, so the recursion ends.
RECURSIVE IsTaskBlocked(_, _)
IsTaskBlocked(list, t) ==
    \E d \in SeqToSet(t.blockedBy) :
        d \in 1 .. Len(list)
        /\ (list[d].status # "completed" \/ IsTaskBlocked(list, list[d]))

\* Variant: the transform builds the metadata anew instead of copying it.
TaskSetStatusTransform_FreshMetadata(cur, newStatus, now) ==
    IF cur.status = newStatus THEN cur
    ELSE [cur EXCEPT !.status = newStatus,
                     !.completedAt = IF newStatus = "completed" THEN now ELSE Unset,
                     !.reopenedAt = IF newStatus # "completed" /\ cur.status = "completed"
                                    THEN now ELSE Unset,
                     !.reopenedByQualityGateCount = 0,
                     !.qualityGateStatus = ""]

\* Variant: the transform accepts only the edges of the task state machine.
TaskSetStatusTransform_EdgesOnly(cur, newStatus, now) ==
    IF <<cur.status, newStatus>> \notin
          {<<"pending", "in_progress">>, <<"in_progress", "completed">>,
           <<"in_progress", "pending">>, <<"completed", "pending">>}
    THEN cur
    ELSE [cur EXCEPT !.status = newStatus,
                     !.completedAt = IF newStatus = "completed" THEN now ELSE @,
                     !.reopenedAt = IF newStatus # "completed" /\ cur.status = "completed"
                                    THEN now ELSE @]

\* Variant: the transform stamps even when the status is the one the task has.
TaskSetStatusTransform_Restamps(cur, newStatus, now) ==
    [cur EXCEPT !.status = newStatus,
                !.completedAt = IF newStatus = "completed" THEN now ELSE @,
                !.reopenedAt = IF newStatus # "completed" /\ cur.status = "completed"
                               THEN now ELSE @]

\* the transform task_set_status hands to updateTask
TaskSetStatusTransform(cur, newStatus, now) ==
    IF cur.status = newStatus THEN cur
    ELSE [cur EXCEPT !.status = newStatus,
                     !.completedAt = IF newStatus = "completed" THEN now ELSE @,
                     !.reopenedAt = IF newStatus # "completed" /\ cur.status = "completed"
                                    THEN now ELSE @]

\* teams tool, action task_set_status (taskId and status given)
TaskSetStatus(taskId, newStatus) ==
    /\ opClock < MaxOps
    /\ opClock' = opClock + 1
    /\ LET f(cur) == TaskSetStatusTransform(cur, newStatus, opClock + 1)
       IN tasks' = UpdateTask(tasks, taskId, f)
    /\ lastRequest' = [taskId |-> taskId, status |-> newStatus]
    /\ UNCHANGED <<hooksPolicy, leadInbox, taskMailbox, hookFailures>>
    /\ UNCHANGED otherThanTasks

\* A task comes into the list, owned by a worker.
CreateTask(owner) ==
    /\ Len(tasks) < MaxUserTasks
    /\ \A i \in 1 .. Len(tasks) : tasks[i].subject = PlainSubject
    /\ tasks' = Append(tasks, NewTask(PlainSubject, owner))
    /\ lastRequest' = NoRequest
    /\ UNCHANGED <<hooksPolicy, leadInbox, taskMailbox, opClock, hookFailures>>
    /\ UNCHANGED otherThanTasks

\* A worker takes up a pending, unblocked task it owns.
WorkerStart(w, id) ==
    /\ id \in 1 .. Len(tasks)
    /\ tasks[id].owner = w
    /\ tasks[id].status = "pending"
    /\ ~IsTaskBlocked(tasks, tasks[id])
    /\ tasks' = [tasks EXCEPT ![id].status = "in_progress"]
    /\ lastRequest' = NoRequest
    /\ UNCHANGED <<hooksPolicy, leadInbox, taskMailbox, opClock, hookFailures>>
    /\ UNCHANGED otherThanTasks

\* A worker completes its task and posts idle_notification{completedTaskId,
\* completedStatus: "completed"} to the lead.
WorkerComplete(w, id) ==
    /\ opClock < MaxOps
    /\ opClock' = opClock + 1
    /\ id \in 1 .. Len(tasks)
    /\ tasks[id].owner = w
    /\ tasks[id].status = "in_progress"
    /\ tasks' = [tasks EXCEPT ![id].status = "completed",
                              ![id].completedAt = opClock + 1]
    /\ leadInbox' = Append(leadInbox,
           [type |-> "idle_notification", from |-> w, completedTaskId |-> id,
            completedStatus |-> "completed"])
    /\ lastRequest' = NoRequest
    /\ UNCHANGED <<hooksPolicy, taskMailbox, hookFailures>>
    /\ UNCHANGED otherThanTasks

\* ---- quality-gate remediation loop ----

\* Variant: the search looks for another prefix.
FindFollowupTask_OtherPrefix(list, originalTaskId) ==
    LET hits == {i \in 1 .. Len(list) :
                    /\ list[i].subject.prefix = "Quality gate failure:"
                    /\ list[i].subject.marker = originalTaskId}
    IN IF hits = {} THEN <<>>
       ELSE <<list[CHOOSE i \in hits : \A j \in hits : i <= j]>>

\* findFollowupTask(tasks, originalTaskId): the first task whose subject starts
\* with "Quality gate failed:" and contains "(task #<originalTaskId>)"
FindFollowupTask(list, originalTaskId) ==
    LET hits == {i \in 1 .. Len(list) :
                    /\ list[i].subject.prefix = "Quality gate failed:"
                    /\ list[i].subject.marker = originalTaskId}
    IN IF hits = {} THEN <<>>
       ELSE <<list[CHOOSE i \in hits : \A j \in hits : i <= j]>>

NudgeSentinel == "Please remediate automatically and continue without waiting for user intervention."

TaskAssignment(id) == [type |-> "task_assignment", taskId |-> id, text |-> ""]
Nudge(id) == [type |-> "text", taskId |-> id, text |-> NudgeSentinel]

FollowupOwnerFor(orig) ==
    CASE hooksPolicy.followupOwner = "member" -> orig.owner
      [] hooksPolicy.followupOwner = "lead" -> LeadName
      [] OTHER -> ""

WantsReopen == hooksPolicy.failureAction \in {"reopen", "reopen_followup"}
WantsFollowup == hooksPolicy.failureAction \in {"followup", "reopen_followup"}

\* The completed task after a failed hook: the gate failure is recorded, and
\* the task is reopened when the policy asks for it and the cap allows it.
RemediateTask(cur, now) ==
    IF WantsReopen /\ cur.reopenedByQualityGateCount < hooksPolicy.maxReopensPerTask
    THEN [cur EXCEPT !.qualityGateStatus = "failed",
                     !.status = "pending",
                     !.reopenedAt = now,
                     !.reopenedByQualityGateCount = @ + 1]
    ELSE [cur EXCEPT !.qualityGateStatus = "failed"]

\* The leader takes the oldest idle notification and runs the post-completion
\* hook, which passes or fails.
HandleIdleNotification(hookOk) ==
    /\ leadInbox # <<>>
    /\ leadInbox' = Tail(leadInbox)
    /\ LET n == Head(leadInbox)
           id == n.completedTaskId
       IN IF hookOk \/ id \notin 1 .. Len(tasks)
          THEN UNCHANGED <<tasks, taskMailbox, hookFailures>>
          ELSE LET orig == tasks[id]
                   f(cur) == RemediateTask(cur, opClock)
                   remediated == UpdateTask(tasks, id, f)
                   owner == FollowupOwnerFor(orig)
                   fid == Len(tasks) + 1
                   followup == [NewTask(FollowupSubject(id), owner)
                                   EXCEPT !.blockedBy = <<id>>]
               IN /\ hookFailures' = [hookFailures EXCEPT ![id] = @ + 1]
                  /\ IF WantsFollowup
                     THEN /\ tasks' = Append([remediated EXCEPT ![id].blocks =
                                                 Append(@, fid)], followup)
                          /\ taskMailbox' =
                               IF owner = "" THEN taskMailbox
                               ELSE [taskMailbox EXCEPT ![owner] =
                                        @ \o <<TaskAssignment(fid), Nudge(fid)>>]
                     ELSE /\ tasks' = remediated
                          /\ UNCHANGED taskMailbox
    /\ lastRequest' = NoRequest
    /\ UNCHANGED <<hooksPolicy, opClock>>
    /\ UNCHANGED otherThanTasks

TasksInit ==
    /\ tasks = <<>>
    /\ leadInbox = <<>>
    /\ taskMailbox = [n \in MailboxNames |-> <<>>]
    /\ opClock = 0
    /\ lastRequest = NoRequest
    /\ hookFailures = [i \in TaskIds |-> 0]

\* the policy a team runs with when nothing has been configured yet
DefaultPolicy ==
    [failureAction |-> "warn", maxReopensPerTask |-> 0, followupOwner |-> "member"]

Policies ==
    [failureAction : FailureActions, maxReopensPerTask : MaxReopensChoices,
     followupOwner : FollowupOwners]

NextTasks ==
    \/ \E w \in Workers : CreateTask(w)
    \/ \E w \in Workers, id \in TaskIds : WorkerStart(w, id)
    \/ \E w \in Workers, id \in TaskIds : WorkerComplete(w, id)
    \/ \E id \in 1 .. (Len(tasks) + 1), st \in TaskStatuses : TaskSetStatus(id, st)
    \/ \E hookOk \in BOOLEAN : HandleIdleNotification(hookOk)

(***************************************************************************)
(*                      TASKS AND REMEDIATION: PROPERTIES                  *)
(***************************************************************************)

ReopenCount(list, i) == list[i].reopenedByQualityGateCount

\* The leader handles a failed hook for task i in this step.
HandlesFailure(i) == hookFailures'[i] = hookFailures[i] + 1

\* C8: with maxReopensPerTask = M the remediation loop reopens a task at most
\* M times: reopenedByQualityGateCount never decreases, grows by one exactly
\* when the loop reopens the task, never exceeds M, and at M a further hook
\* failure leaves the task completed; with M = 0 no task is reopened.
C8_ReopenBound ==
    /\ [](\A i \in 1 .. Len(tasks) :
            /\ ReopenCount(tasks, i) <= hooksPolicy.maxReopensPerTask
            /\ ReopenCount(tasks, i) <= hookFailures[i])
    /\ [][\A i \in 1 .. Len(tasks) :
            LET c == ReopenCount(tasks, i)
                d == ReopenCount(tasks', i)
            IN /\ d >= c /\ d <= c + 1
               /\ d = c + 1 =>
                    /\ HandlesFailure(i)
                    /\ c < hooksPolicy.maxReopensPerTask
                    /\ tasks'[i].status = "pending"
               /\ (HandlesFailure(i) /\ tasks[i].status = "completed") =>
                    /\ tasks'[i].qualityGateStatus = "failed"
                    /\ tasks'[i].status = "pending" <=> d = c + 1
                    /\ c = hooksPolicy.maxReopensPerTask =>
                          tasks'[i].status = "completed"
      ]_vars

\* A task has been reopened M = 2 times and a third hook failure left it completed.
C8_Witness ==
    /\ hooksPolicy.maxReopensPerTask = 2
    /\ \E i \in 1 .. Len(tasks) :
          /\ ReopenCount(tasks, i) = 2
          /\ hookFailures[i] = 3
          /\ tasks[i].status = "completed"
          /\ tasks[i].qualityGateStatus = "failed"

ScenarioS4Policy ==
    [failureAction |-> "reopen_followup", maxReopensPerTask |-> 2,
     followupOwner |-> "member"]

\* The state scenario S4 expects for task i of worker w, in the given task
\* list and mailboxes.
RemediatedState(list, boxes, i, w) ==
    /\ list[i].status = "pending"
    /\ list[i].reopenedByQualityGateCount = 1
    /\ list[i].qualityGateStatus = "failed"
    /\ LET found == FindFollowupTask(list, i) IN
       /\ found # <<>>
       /\ found[1].owner = w
       /\ found[1].blockedBy = <<i>>
       /\ \E k \in 1 .. Len(boxes[w]) :
             boxes[w][k].type = "task_assignment" /\ boxes[w][k].taskId = found[1].id
       /\ \E k \in 1 .. Len(boxes[w]) : boxes[w][k].text = NudgeSentinel

\* C9: under the policy {reopen_followup, 2, member}, every idle notification
\* is eventually handled, and handling the one of worker w for its completed,
\* never reopened task T with a failing hook leaves T pending with
\* reopenedByQualityGateCount = 1 and qualityGateStatus = failed, a follow-up
\* task for T owned by w and blocked by T, and in w's task mailbox the
\* task_assignment for the follow-up and the nudge with the sentinel phrase.
C9_RemediationReopen ==
    /\ []<>(leadInbox = <<>>)
    /\ [][\A i \in 1 .. Len(tasks) :
            (/\ hooksPolicy = ScenarioS4Policy
             /\ HandlesFailure(i)
             /\ tasks[i].status = "completed"
             /\ ReopenCount(tasks, i) = 0
             /\ tasks[i].owner \in Workers
             /\ Head(leadInbox).from = tasks[i].owner)
            => RemediatedState(tasks', taskMailbox', i, tasks[i].owner)
      ]_vars

\* Scenario S4 has run for task 1 of worker w1.
C9_Witness ==
    /\ hooksPolicy = ScenarioS4Policy
    /\ Len(tasks) = 2
    /\ hookFailures[1] = 1
    /\ leadInbox = <<>>
    /\ RemediatedState(tasks, taskMailbox, 1, "w1")

TaskEdges ==
    {<<"pending", "in_progress">>, <<"in_progress", "completed">>,
     <<"in_progress", "pending">>, <<"completed", "pending">>}

\* A task_set_status call returns in this step.
SetsStatus == lastRequest' # NoRequest /\ opClock' = opClock + 1

\* C10 as stated: every status change made by task_set_status is an edge of
\* the task state machine.
C10_OnlyStateMachineEdges ==
    [][SetsStatus =>
         \A i \in 1 .. Len(tasks) :
             tasks'[i].status # tasks[i].status
             => <<tasks[i].status, tasks'[i].status>> \in TaskEdges
      ]_vars

\* C10 amended: task_set_status gives the named task the requested status
\* whatever status it has, so pending -> completed and completed ->
\* in_progress occur as well as the four edges; it stamps completedAt when the
\* task becomes completed and reopenedAt when it leaves completed, and changes
\* nothing else and no other task.
C10_SetsRequestedStatus ==
    [][SetsStatus =>
         /\ Len(tasks') = Len(tasks)
         /\ \A i \in 1 .. Len(tasks) :
               IF i = lastRequest'.taskId /\ tasks[i].status # lastRequest'.status
               THEN tasks'[i] =
                      [tasks[i] EXCEPT
                         !.status = lastRequest'.status,
                         !.completedAt =
                            IF lastRequest'.status = "completed" THEN opClock' ELSE @,
                         !.reopenedAt =
                            IF tasks[i].status = "completed" THEN opClock' ELSE @]
               ELSE tasks'[i] = tasks[i]
      ]_vars

\* task_set_status has just moved a completed task to in_progress.
C10_Witness ==
    /\ lastRequest.taskId \in 1 .. Len(tasks)
    /\ lastRequest.status = "in_progress"
    /\ tasks[lastRequest.taskId].status = "in_progress"
    /\ tasks[lastRequest.taskId].reopenedAt = opClock
    /\ tasks[lastRequest.taskId].completedAt # Unset

(***************************************************************************)
(*                         TEAMS TOOL: OTHER ACTIONS                       *)
(*                                                                         *)
(* The agent loop awaits each execute() before it issues the next, so at   *)
(* most one tool call is in flight; a call that awaits a mailbox write is  *)
(* suspended in toolCall and other callbacks of the leader run meanwhile.  *)
(***************************************************************************)

\* Bounds of the tool model.
MaxPlanRequests == 2   \* plan approval requests relayed in one behaviour

\* Names of teammates: the automatic names and one chosen by hand.
ToolNames == SeqToSet(AgentNames) \cup Workers

\* Names the tool is called with as name or assignee.
GivenNames == {"agent1", "w1"}

TEAM_MAILBOX_NS == "team"

\* parameters of a delegate call: tasks, teammates, maxTeammates, and the
\* environment it meets: failing spawn attempts, the point of the abort
NoParams == [tasks |-> <<>>, teammates |-> <<>>, maxTeammates |-> 0,
             failing |-> {}, abortAt |-> 0, spawnAbortAt |-> 0]

NoToolCall == [action |-> "none", name |-> "", step |-> "", requestId |-> 0,
               feedback |-> "", params |-> NoParams]
\* details of a delegate call: names spawned, assignments, warnings
NoDetails == [spawned |-> <<>>, assignments |-> <<>>, warnings |-> <<>>]

NoToolResult == [action |-> "none", name |-> "", text |-> "", requestId |-> 0,
                 taskId |-> 0, depId |-> 0, details |-> NoDetails]

\* sanitizeName: every character outside [a-zA-Z0-9_-] becomes "-".  Names are
\* atoms here, so the function is given on the names in use: "w@1" is the one
\* that holds such a character
sanitizeName(name) == IF name = "w@1" THEN "w-1" ELSE name

PlanDecisions == {"plan_approve", "plan_reject"}
PlanEnvelopeType(action) ==
    IF action = "plan_approve" THEN "plan_approved" ELSE "plan_rejected"

\* What a returned tool call reports.
ToolReport(action, name, text) ==
    [action |-> action, name |-> name, text |-> text, requestId |-> 0,
     taskId |-> 0, depId |-> 0, details |-> NoDetails]

\* The tool call awaits step `step` of action `action` on `name`.
Awaiting(action, name, step) ==
    [action |-> action, name |-> name, step |-> step, requestId |-> 0, feedback |-> "",
     params |-> NoParams]

\* A tool call starts: none is in flight and the call takes its turn on the clock.
ToolCallStarts ==
    /\ toolCall = NoToolCall
    /\ opClock < MaxOps
    /\ opClock' = opClock + 1
    /\ lastRequest' = NoRequest

\* The coordinator has polled a plan_approval_request of worker w and stores it.
RelayPlanRequest(w) ==
    /\ nextPlanRequest < MaxPlanRequests
    /\ nextPlanRequest' = nextPlanRequest + 1
    /\ pendingPlanApprovals' =
          [pendingPlanApprovals EXCEPT ![w] = <<nextPlanRequest + 1>>]
    /\ UNCHANGED <<teammates, members, teamMailbox, toolCall, toolResult, rpcStopped>>
    /\ UNCHANGED <<taskVars, otherThanTool>>

\* plan_approve / plan_reject up to the await of writeToMailbox
PlanDecide(action, nameRaw, feedbackRaw) ==
    /\ ToolCallStarts
    /\ LET name == sanitizeName(nameRaw)
           pendingApproval == IF name = "" THEN <<>> ELSE pendingPlanApprovals[name]
           feedback == IF action = "plan_approve" THEN ""
                       ELSE IF feedbackRaw # "" THEN feedbackRaw ELSE "Plan rejected"
       IN IF name = ""
          THEN /\ toolResult' = ToolReport(action, name, "requires name")
               /\ UNCHANGED toolCall
          ELSE IF pendingApproval = <<>>
          THEN /\ toolResult' = ToolReport(action, name, "No pending plan approval")
               /\ UNCHANGED toolCall
          ELSE /\ toolCall' = [action |-> action, name |-> name, step |-> "write",
                               requestId |-> pendingApproval[1], feedback |-> feedback,
                               params |-> NoParams]
               /\ toolResult' = NoToolResult
    /\ UNCHANGED <<teammates, members, pendingPlanApprovals, teamMailbox, nextPlanRequest,
                   rpcStopped>>
    /\ UNCHANGED <<tasks, hooksPolicy, leadInbox, taskMailbox, hookFailures>>
    /\ UNCHANGED otherThanTool

\* Variant: the decision leaves the pending entry in the map.
PlanDecideWritten_NoDelete ==
    /\ toolCall.action \in PlanDecisions
    /\ teamMailbox' = [teamMailbox EXCEPT ![toolCall.name] = Append(@,
          [type |-> PlanEnvelopeType(toolCall.action), requestId |-> toolCall.requestId,
           from |-> LeadName, feedback |-> toolCall.feedback])]
    /\ toolResult' = [ToolReport(toolCall.action, toolCall.name,
                                 PlanEnvelopeType(toolCall.action))
                         EXCEPT !.requestId = toolCall.requestId]
    /\ toolCall' = NoToolCall
    /\ UNCHANGED <<teammates, members, pendingPlanApprovals, nextPlanRequest, rpcStopped>>
    /\ UNCHANGED <<taskVars, otherThanTool>>

\* plan_approve / plan_reject from the end of writeToMailbox to the return
PlanDecideWritten ==
    /\ toolCall.action \in PlanDecisions
    /\ teamMailbox' = [teamMailbox EXCEPT ![toolCall.name] = Append(@,
          [type |-> PlanEnvelopeType(toolCall.action), requestId |-> toolCall.requestId,
           from |-> LeadName, feedback |-> toolCall.feedback])]
    /\ pendingPlanApprovals' = [pendingPlanApprovals EXCEPT ![toolCall.name] = <<>>]
    /\ toolResult' = [ToolReport(toolCall.action, toolCall.name,
                                 PlanEnvelopeType(toolCall.action))
                         EXCEPT !.requestId = toolCall.requestId]
    /\ toolCall' = NoToolCall
    /\ UNCHANGED <<teammates, members, nextPlanRequest, rpcStopped>>
    /\ UNCHANGED <<taskVars, otherThanTool>>

\* ---- plan_approve, plan_reject: calls that overlap ----

MaxPlanCalls == 2      \* plan_approve / plan_reject calls in one behaviour

PlanCallsInit == planCalls = <<>>

\* execute() of plan_approve / plan_reject from its start to the await of
\* writeToMailbox, whatever other calls are suspended at theirs: the call reads
\* the pending entry and either returns at once or goes on to write
PlanCallStart(action, nameRaw, feedbackRaw) ==
    /\ Len(planCalls) < MaxPlanCalls
    /\ LET name == sanitizeName(nameRaw)
           pendingApproval == IF name = "" THEN <<>> ELSE pendingPlanApprovals[name]
           feedback == IF action = "plan_approve" THEN ""
                       ELSE IF feedbackRaw # "" THEN feedbackRaw ELSE "Plan rejected"
       IN planCalls' = Append(planCalls,
              IF name = ""
              THEN [action |-> action, name |-> name, step |-> "returned", requestId |-> 0,
                    feedback |-> "", text |-> "requires name"]
              ELSE IF pendingApproval = <<>>
              THEN [action |-> action, name |-> name, step |-> "returned", requestId |-> 0,
                    feedback |-> "", text |-> "No pending plan approval"]
              ELSE [action |-> action, name |-> name, step |-> "write",
                    requestId |-> pendingApproval[1], feedback |-> feedback, text |-> ""])
    /\ UNCHANGED toolVars
    /\ UNCHANGED otherThanPlanCalls

\* call i from the end of its writeToMailbox to its return: the envelope is in
\* the mailbox and the entry of the worker is deleted
PlanCallWritten(i) ==
    /\ i \in 1 .. Len(planCalls)
    /\ planCalls[i].step = "write"
    /\ teamMailbox' = [teamMailbox EXCEPT ![planCalls[i].name] = Append(@,
          [type |-> PlanEnvelopeType(planCalls[i].action),
           requestId |-> planCalls[i].requestId,
           from |-> LeadName, feedback |-> planCalls[i].feedback])]
    /\ pendingPlanApprovals' = [pendingPlanApprovals EXCEPT ![planCalls[i].name] = <<>>]
    /\ planCalls' = [planCalls EXCEPT ![i].step = "returned",
                                      ![i].text = PlanEnvelopeType(planCalls[i].action)]
    /\ UNCHANGED <<teammates, members, toolCall, toolResult, nextPlanRequest, rpcStopped>>
    /\ UNCHANGED otherThanPlanCalls

\* ---- member_spawn, member_kill ----

\* spawnTeammate(name), successful: the RPC is registered and the member online
SpawnedTeammates(running, name) == Append(running, name)
SpawnedMembers(cfg, name) == [cfg EXCEPT ![name] = "online"]

\* member_spawn; spawnOk is whether spawnTeammate brings the child up
MemberSpawn(nameRaw, spawnOk) ==
    /\ ToolCallStarts
    /\ LET name == sanitizeName(nameRaw)
       IN IF name = ""
          THEN /\ toolResult' = ToolReport("member_spawn", name, "requires name")
               /\ UNCHANGED <<teammates, members, rpcStopped>>
          ELSE IF name \in SeqToSet(teammates)
          THEN /\ toolResult' = ToolReport("member_spawn", name, "already running")
               /\ UNCHANGED <<teammates, members, rpcStopped>>
          ELSE IF ~spawnOk
          THEN /\ toolResult' = ToolReport("member_spawn", name, "Failed to spawn")
               /\ UNCHANGED <<teammates, members, rpcStopped>>
          ELSE /\ toolResult' = ToolReport("member_spawn", name, "Spawned")
               /\ teammates' = SpawnedTeammates(teammates, name)
               /\ members' = SpawnedMembers(members, name)
               /\ rpcStopped' = rpcStopped \ {name}
    /\ UNCHANGED <<pendingPlanApprovals, teamMailbox, toolCall, nextPlanRequest>>
    /\ UNCHANGED <<tasks, hooksPolicy, leadInbox, taskMailbox, hookFailures>>
    /\ UNCHANGED otherThanTool

\* unassignTasksForAgent(agentName, reason): every task of agentName that is
\* not completed loses its owner, becomes pending and is stamped
unassignTasksForAgent(list, agentName, reason, now) ==
    [i \in 1 .. Len(list) |->
        IF list[i].owner = agentName /\ list[i].status # "completed"
        THEN [list[i] EXCEPT !.owner = "", !.status = "pending",
                             !.unassigned = [at |-> now, by |-> LeadName,
                                             detail |-> reason]]
        ELSE list[i]]

\* member_kill up to the await of rpc.stop()
MemberKill(nameRaw) ==
    /\ ToolCallStarts
    /\ LET name == sanitizeName(nameRaw)
       IN IF name = ""
          THEN /\ toolResult' = ToolReport("member_kill", name, "requires name")
               /\ UNCHANGED toolCall
          ELSE IF name \notin SeqToSet(teammates)
          THEN /\ toolResult' = ToolReport("member_kill", name, "Unknown teammate")
               /\ UNCHANGED toolCall
          ELSE /\ toolCall' = Awaiting("member_kill", name, "stop")
               /\ toolResult' = NoToolResult
    /\ UNCHANGED <<teammates, members, pendingPlanApprovals, teamMailbox, nextPlanRequest,
                   rpcStopped>>
    /\ UNCHANGED <<tasks, hooksPolicy, leadInbox, taskMailbox, hookFailures>>
    /\ UNCHANGED otherThanTool

\* Variant: the entry stays in the teammates map.
MemberKillStopped_KeepsEntry ==
    /\ toolCall.action = "member_kill" /\ toolCall.step = "stop"
    /\ rpcStopped' = rpcStopped \cup {toolCall.name}
    /\ toolCall' = [toolCall EXCEPT !.step = "unassign"]
    /\ UNCHANGED <<teammates, members, pendingPlanApprovals, teamMailbox, toolResult,
                   nextPlanRequest>>
    /\ UNCHANGED <<taskVars, otherThanTool>>

\* member_kill: rpc.stop() has returned, the entry leaves the map and
\* unassignTasksForAgent is awaited
MemberKillStopped ==
    /\ toolCall.action = "member_kill" /\ toolCall.step = "stop"
    /\ rpcStopped' = rpcStopped \cup {toolCall.name}
    /\ teammates' = SelectSeq(teammates, LAMBDA n : n # toolCall.name)
    /\ toolCall' = [toolCall EXCEPT !.step = "unassign"]
    /\ UNCHANGED <<members, pendingPlanApprovals, teamMailbox, toolResult, nextPlanRequest>>
    /\ UNCHANGED <<taskVars, otherThanTool>>

\* member_kill: the tasks are unassigned and setMemberStatus is awaited
MemberKillUnassigned ==
    /\ toolCall.action = "member_kill" /\ toolCall.step = "unassign"
    /\ tasks' = unassignTasksForAgent(tasks, toolCall.name, "killed",
                                      opClock)
    /\ toolCall' = [toolCall EXCEPT !.step = "offline"]
    /\ UNCHANGED <<teammates, members, pendingPlanApprovals, teamMailbox, toolResult,
                   nextPlanRequest, rpcStopped>>
    /\ UNCHANGED <<hooksPolicy, leadInbox, taskMailbox, opClock, lastRequest, hookFailures>>
    /\ UNCHANGED otherThanTool

\* member_kill: the member is offline, the widget is refreshed, the call returns
MemberKillOffline ==
    /\ toolCall.action = "member_kill" /\ toolCall.step = "offline"
    /\ members' = [members EXCEPT ![toolCall.name] = "offline"]
    /\ toolResult' = ToolReport("member_kill", toolCall.name, "Killed")
    /\ toolCall' = NoToolCall
    /\ UNCHANGED <<teammates, pendingPlanApprovals, teamMailbox, nextPlanRequest,
                   rpcStopped>>
    /\ UNCHANGED <<taskVars, otherThanTool>>

\* ---- task_assign, task_unassign ----

\* every list position, and one id that names no task
TaskIdParams == 1 .. (Len(tasks) + 1)

\* Variant: a completed task goes back to pending as well.
TaskAssignTransform_AlwaysPending(cur, assignee, now) ==
    [cur EXCEPT !.reassigned = [at |-> now, by |-> LeadName, detail |-> assignee],
                !.owner = assignee, !.status = "pending"]

\* the transform task_assign hands to updateTask
TaskAssignTransform(cur, assignee, now) ==
    LET stamped == [cur EXCEPT !.reassigned = [at |-> now, by |-> LeadName,
                                               detail |-> assignee]]
    IN IF cur.status = "completed" THEN [stamped EXCEPT !.owner = assignee]
       ELSE [stamped EXCEPT !.owner = assignee, !.status = "pending"]

\* task_assign
TaskAssign(taskId, assigneeRaw) ==
    /\ ToolCallStarts
    /\ LET assignee == sanitizeName(assigneeRaw)
           f(cur) == TaskAssignTransform(cur, assignee, opClock + 1)
       IN IF assignee = ""
          THEN /\ toolResult' = ToolReport("task_assign", assignee,
                                           "requires taskId and assignee")
               /\ UNCHANGED <<tasks, taskMailbox>>
          ELSE IF GetTask(taskId) = <<>>
          THEN /\ toolResult' = ToolReport("task_assign", assignee, "Task not found")
               /\ UNCHANGED <<tasks, taskMailbox>>
          ELSE /\ tasks' = UpdateTask(tasks, taskId, f)
               /\ taskMailbox' = [taskMailbox EXCEPT ![assignee] =
                                     Append(@, TaskAssignment(taskId))]
               /\ toolResult' = ToolReport("task_assign", assignee, "Assigned")
    /\ UNCHANGED <<teammates, members, pendingPlanApprovals, teamMailbox, toolCall,
                   nextPlanRequest, rpcStopped>>
    /\ UNCHANGED <<hooksPolicy, leadInbox, hookFailures>>
    /\ UNCHANGED otherThanTool

\* task lists a store can hold when a call arrives: every status, with the
\* completedAt stamp a completed task carries, owned by nobody or by w1
StoredTask(id, taskStatus, owner) ==
    [id |-> id, subject |-> PlainSubject, status |-> taskStatus,
     owner |-> owner, blockedBy |-> <<>>, blocks |-> <<>>,
     completedAt |-> IF taskStatus = "completed" THEN 0 ELSE Unset,
     reopenedAt |-> Unset, reopenedByQualityGateCount |-> 0,
     qualityGateStatus |-> "", unassigned |-> NoStamp, reassigned |-> NoStamp]

StoredTaskLists ==
    UNION {{[i \in 1 .. n |-> StoredTask(i, f[i][1], f[i][2])] :
               f \in [1 .. n -> TaskStatuses \X {"", "w1"}]} : n \in 0 .. MaxUserTasks}

MaxAssignCalls == 2         \* consecutive calls on one stored list

AssigneeParams == {"", "w1", "w@1"}

\* task_assign and task_set_status calls on a stored list
NextAssign ==
    /\ opClock < MaxAssignCalls
    /\ \E taskId \in TaskIdParams :
          \/ \E assigneeRaw \in AssigneeParams : TaskAssign(taskId, assigneeRaw)
          \/ \E newStatus \in TaskStatuses :
                toolCall = NoToolCall /\ TaskSetStatus(taskId, newStatus)

\* the transform task_unassign hands to updateTask
TaskUnassignTransform(cur, now) ==
    IF cur.owner = "" THEN cur
    ELSE IF cur.status = "completed" THEN [cur EXCEPT !.owner = ""]
    ELSE [cur EXCEPT !.owner = "", !.status = "pending",
                     !.unassigned = [at |-> now, by |-> LeadName,
                                     detail |-> "teams-tool"]]

\* task_unassign
TaskUnassign(taskId) ==
    /\ ToolCallStarts
    /\ LET f(cur) == TaskUnassignTransform(cur, opClock + 1)
       IN IF GetTask(taskId) = <<>>
          THEN /\ toolResult' = ToolReport("task_unassign", "", "Task not found")
               /\ UNCHANGED tasks
          ELSE /\ tasks' = UpdateTask(tasks, taskId, f)
               /\ toolResult' = ToolReport("task_unassign", "", "Unassigned")
    /\ UNCHANGED <<teammates, members, pendingPlanApprovals, teamMailbox, toolCall,
                   nextPlanRequest, rpcStopped>>
    /\ UNCHANGED <<hooksPolicy, leadInbox, taskMailbox, hookFailures>>
    /\ UNCHANGED otherThanTool

\* ---- member_prune, member_shutdown, message_broadcast ----

\* lastSeenAt is kept as its age when the call runs, in minutes; Unset: the
\* member has no lastSeenAt, or one that Date.parse does not read
LastSeenAges == {Unset, 10, 60, 61}
PruneCutoff == 60           \* cutoffMs = 60 * 60 * 1000, in minutes

NoMeta == [lastSeenAge |-> Unset, shutdownRequestedAt |-> Unset,
           shutdownRequestId |-> 0, shutdownReason |-> "",
           prunedAt |-> Unset, prunedBy |-> ""]

\* Variant: all=true does not override the age test.
Prunable_AlwaysByAge(name, all) ==
    /\ name \notin SeqToSet(teammates)
    /\ name \notin {tasks[i].owner : i \in {j \in 1 .. Len(tasks) :
                       tasks[j].owner # "" /\ tasks[j].status = "in_progress"}}
    /\ memberMeta[name].lastSeenAge # Unset
    /\ ~(memberMeta[name].lastSeenAge < PruneCutoff)

\* what the loop of member_prune does not skip
Prunable(name, all) ==
    /\ name \notin SeqToSet(teammates)
    /\ name \notin {tasks[i].owner : i \in {j \in 1 .. Len(tasks) :
                       tasks[j].owner # "" /\ tasks[j].status = "in_progress"}}
    /\ all \/ (/\ memberMeta[name].lastSeenAge # Unset
               /\ ~(memberMeta[name].lastSeenAge < PruneCutoff))

\* member_prune
MemberPrune(all) ==
    /\ ToolCallStarts
    /\ LET workers == {n \in ToolNames : members[n] # "none"}
           pruned == {n \in workers : Prunable(n, all)}
       IN /\ members' = [n \in ToolNames |-> IF n \in pruned THEN "offline" ELSE members[n]]
          /\ memberMeta' = [n \in ToolNames |->
                IF n \in pruned
                THEN [memberMeta[n] EXCEPT !.prunedAt = opClock + 1,
                                           !.prunedBy = "teams-tool"]
                ELSE memberMeta[n]]
          /\ toolResult' = ToolReport("member_prune", "",
                 IF workers = {} THEN "No members to prune"
                 ELSE IF pruned = {} THEN "No stale members to prune"
                 ELSE "Pruned")
    /\ UNCHANGED <<teammates, pendingPlanApprovals, teamMailbox, toolCall,
                   nextPlanRequest, rpcStopped, uuids>>
    /\ UNCHANGED <<tasks, hooksPolicy, leadInbox, taskMailbox, hookFailures>>
    /\ UNCHANGED otherThanMembers

\* a message in a mailbox of the team namespace, as the tool writes it: the
\* JSON of a shutdown_request, or the plain text of a broadcast
ShutdownRequest(requestId, ts, reason) ==
    [type |-> "shutdown_request", requestId |-> requestId, from |-> LeadName,
     text |-> "", timestamp |-> ts, reason |-> reason]

PlainMessage(text, ts) ==
    [type |-> "message", requestId |-> 0, from |-> LeadName,
     text |-> text, timestamp |-> ts, reason |-> ""]

\* Array.from(recipients).sort(): the names in the order of their strings
SortedNames == <<"agent1", "agent2", "agent3", "agent4", "w1">>
RankOf(name, S) ==
    Cardinality({i \in 1 .. Len(SortedNames) :
                    /\ SortedNames[i] \in S
                    /\ i <= CHOOSE k \in 1 .. Len(SortedNames) : SortedNames[k] = name})

\* the recipients of member_shutdown
ShutdownRecipients(all, explicitName) ==
    IF all THEN {n \in ToolNames : members[n] = "online"} \cup SeqToSet(teammates)
    ELSE {explicitName}

ReasonParams == {"", "done"}

\* member_shutdown; reason is already trimmed
MemberShutdown(all, nameRaw, reason) ==
    /\ ToolCallStarts
    /\ LET explicitName == sanitizeName(nameRaw)
           recipients == ShutdownRecipients(all, explicitName)
           ts == opClock + 1
           idOf(n) == uuids + RankOf(n, recipients)
       IN IF ~all /\ explicitName = ""
          THEN /\ toolResult' = ToolReport("member_shutdown", "", "requires name")
               /\ UNCHANGED <<teamMailbox, members, memberMeta, uuids>>
          ELSE IF recipients = {}
          THEN /\ toolResult' = ToolReport("member_shutdown", "", "No members to shut down")
               /\ UNCHANGED <<teamMailbox, members, memberMeta, uuids>>
          ELSE /\ teamMailbox' = [n \in ToolNames |->
                     IF n \in recipients
                     THEN Append(teamMailbox[n], ShutdownRequest(idOf(n), ts, reason))
                     ELSE teamMailbox[n]]
               /\ members' = [n \in ToolNames |->
                     IF n \in recipients THEN "online" ELSE members[n]]
               /\ memberMeta' = [n \in ToolNames |->
                     IF n \in recipients
                     THEN [memberMeta[n] EXCEPT !.shutdownRequestedAt = ts,
                                                !.shutdownRequestId = idOf(n),
                                                !.shutdownReason =
                                                    IF reason # "" THEN reason ELSE @]
                     ELSE memberMeta[n]]
               /\ uuids' = uuids + Cardinality(recipients)
               /\ toolResult' = ToolReport("member_shutdown", explicitName,
                                           "Shutdown requested")
    /\ UNCHANGED <<teammates, pendingPlanApprovals, toolCall, nextPlanRequest, rpcStopped>>
    /\ UNCHANGED <<tasks, hooksPolicy, leadInbox, taskMailbox, hookFailures>>
    /\ UNCHANGED otherThanMembers

\* Variant: the task owners are left out.
BroadcastRecipients_NoOwners ==
    {n \in ToolNames : members[n] # "none"} \cup SeqToSet(teammates)

\* the recipients of message_broadcast
BroadcastRecipients ==
    {n \in ToolNames : members[n] # "none"}
       \cup SeqToSet(teammates)
       \cup {tasks[i].owner : i \in {j \in 1 .. Len(tasks) :
                 tasks[j].owner # "" /\ tasks[j].owner # LeadName}}

MessageParams == {"", "hello"}

\* message_broadcast; message is already trimmed
MessageBroadcast(message) ==
    /\ ToolCallStarts
    /\ LET recipients == BroadcastRecipients
           ts == opClock + 1
       IN IF message = ""
          THEN /\ toolResult' = ToolReport("message_broadcast", "", "requires message")
               /\ UNCHANGED teamMailbox
          ELSE IF recipients = {}
          THEN /\ toolResult' = ToolReport("message_broadcast", "", "No members to broadcast to")
               /\ UNCHANGED teamMailbox
          ELSE /\ teamMailbox' = [n \in ToolNames |->
                     IF n \in recipients
                     THEN Append(teamMailbox[n], PlainMessage(message, ts))
                     ELSE teamMailbox[n]]
               /\ toolResult' = ToolReport("message_broadcast", "", "Broadcast queued")
    /\ UNCHANGED <<teammates, members, pendingPlanApprovals, toolCall, nextPlanRequest,
                   rpcStopped>>
    /\ UNCHANGED <<tasks, hooksPolicy, leadInbox, taskMailbox, hookFailures>>
    /\ UNCHANGED otherThanTool

\* the team configs, running teammates and task lists the three actions meet:
\* agent1 and w1 may be members, a running teammate is an online member, and
\* a member has a lastSeenAt or none
MemberStates ==
    {m \in [ToolNames -> {"none", "online", "offline"}] :
        \A n \in ToolNames \ GivenNames : m[n] = "none"}

MemberTaskLists ==
    {<<>>} \cup {<<StoredTask(1, st, o)>> : st \in {"pending", "in_progress"},
                                          o \in {"w1", LeadName}}

\* member_prune, member_shutdown and message_broadcast calls
NextMembers ==
    /\ opClock < MaxAssignCalls
    /\ \/ \E all \in BOOLEAN : MemberPrune(all)
       \/ \E all \in BOOLEAN, nameRaw \in {"", "w1"}, reason \in ReasonParams :
             MemberShutdown(all, nameRaw, reason)
       \/ \E message \in MessageParams : MessageBroadcast(message)

\* ---- the teams widget ----

\* A display line is kept by its parts; padding, colours and truncation to the
\* width are left out, and so is the tail of lastAssistantText.
WidgetLine(kind) ==
    [kind |-> kind, delegate |-> FALSE, name |-> "", status |-> "", taskId |-> 0,
     seen |-> FALSE, pending |-> 0, inProgress |-> 0, completed |-> 0]

RpcStatuses == {"starting", "idle", "streaming", "stopped", "error"}

countTasks(list, taskStatus) ==
    Cardinality({i \in 1 .. Len(list) : list[i].status = taskStatus})

\* (teamConfig?.members ?? []).some(m => m.role === "worker" && m.status === "online")
hasOnlineMembers(cfg) == \E n \in ToolNames : cfg[n] = "online"

\* the names of the rows: the teammates of the map, the online workers of the
\* config and the owners of in_progress tasks, sorted
visibleNames(list, running, cfg) ==
    SeqToSet(running)
        \cup {n \in ToolNames : cfg[n] = "online"}
        \cup {list[i].owner : i \in {j \in 1 .. Len(list) :
                 list[j].owner # "" /\ list[j].status = "in_progress"}}
SortedVisible(list, running, cfg) ==
    SelectSeq(SortedNames, LAMBDA n : n \in visibleNames(list, running, cfg))

\* tasks.find(x => x.owner === name && x.status === "in_progress"): its id, 0 for none
ActiveTask(list, name) ==
    LET mine == {i \in 1 .. Len(list) : list[i].owner = name /\ list[i].status = "in_progress"}
    IN IF mine = {} THEN 0 ELSE list[CHOOSE i \in mine : \A j \in mine : i <= j].id

\* one row of buildTeamsWidgetLines
BuiltRow(name, list, running, rpcStatus, cfg, meta) ==
    LET active == ActiveTask(list, name)
    IN IF name \in SeqToSet(running)
       THEN [WidgetLine("row") EXCEPT
                !.name = name,
                !.status = IF active # 0 /\ rpcStatus[name] = "idle" THEN "working"
                           ELSE rpcStatus[name],
                !.taskId = active]
       ELSE [WidgetLine("row") EXCEPT
                !.name = name,
                !.status = IF active # 0 THEN "working"
                           ELSE IF cfg[name] = "none" THEN "offline" ELSE cfg[name],
                !.taskId = active,
                !.seen = cfg[name] # "none" /\ meta[name].lastSeenAge # Unset]

buildTeamsWidgetLines(dm, list, running, rpcStatus, cfg, meta) ==
    IF running = <<>> /\ list = <<>> /\ ~hasOnlineMembers(cfg) THEN <<>>
    ELSE LET names == SortedVisible(list, running, cfg)
             head == <<[WidgetLine("header") EXCEPT !.delegate = dm],
                       [WidgetLine("tasks") EXCEPT
                           !.pending = countTasks(list, "pending"),
                           !.inProgress = countTasks(list, "in_progress"),
                           !.completed = countTasks(list, "completed")]>>
         IN IF names = <<>>
            THEN head \o <<WidgetLine("no teammates"), WidgetLine("hint: task")>>
            ELSE head
                   \o [i \in 1 .. Len(names) |->
                          BuiltRow(names[i], list, running, rpcStatus, cfg, meta)]
                   \o <<WidgetLine("hint: dm")>>
                   \o (IF running # <<>> THEN <<WidgetLine("hint: send")>> ELSE <<>>)
                   \o <<WidgetLine("hint: task")>>

\* Variant: an idle teammate that owns an in_progress task is shown as working.
resolveStatus_Working(name, list, running, rpcStatus, cfg) ==
    IF name \in SeqToSet(running)
    THEN IF ActiveTask(list, name) # 0 /\ rpcStatus[name] = "idle" THEN "working"
         ELSE rpcStatus[name]
    ELSE IF cfg[name] = "online" THEN "idle" ELSE "stopped"

\* resolveStatus(rpc, cfg) for the row of name
resolveStatus(name, list, running, rpcStatus, cfg) ==
    IF name \in SeqToSet(running) THEN rpcStatus[name]
    ELSE IF cfg[name] = "online" THEN "idle" ELSE "stopped"

\* one row of createTeamsWidget(deps).render
RenderedRow(name, list, running, rpcStatus, cfg) ==
    [WidgetLine("row") EXCEPT
        !.name = name,
        !.status = resolveStatus(name, list, running, rpcStatus, cfg),
        !.pending = Cardinality({i \in 1 .. Len(list) :
                        list[i].owner = name /\ list[i].status = "pending"}),
        !.completed = Cardinality({i \in 1 .. Len(list) :
                          list[i].owner = name /\ list[i].status = "completed"})]

\* createTeamsWidget(deps)(tui, theme).render(width)
render(dm, list, running, rpcStatus, cfg) ==
    IF running = <<>> /\ list = <<>> /\ ~hasOnlineMembers(cfg) THEN <<>>
    ELSE LET names == SortedVisible(list, running, cfg)
             head == <<[WidgetLine("header") EXCEPT !.delegate = dm]>>
         IN IF names = <<>>
            THEN head \o <<WidgetLine("no comrades"), WidgetLine("hint: panel")>>
            ELSE head
                   \o [i \in 1 .. Len(names) |->
                          RenderedRow(names[i], list, running, rpcStatus, cfg)]
                   \o <<[WidgetLine("total") EXCEPT
                            !.pending = countTasks(list, "pending"),
                            !.completed = countTasks(list, "completed")]>>
                   \o <<WidgetLine("hint: panel")>>

WidgetInit ==
    /\ rpcStatusOf = [n \in ToolNames |-> "stopped"]
    /\ delegateMode = FALSE
    /\ widget = <<>>

\* the widget is drawn from the current teammates, tasks and team config, by
\* buildTeamsWidgetLines and by the component of createTeamsWidget
RenderWidget ==
    /\ widget = <<>>
    /\ widget' = <<[built |-> buildTeamsWidgetLines(delegateMode, tasks, teammates,
                                                  rpcStatusOf, members, memberMeta),
                   rendered |-> render(delegateMode, tasks, teammates, rpcStatusOf,
                                       members)]>>
    /\ UNCHANGED <<rpcStatusOf, delegateMode>>
    /\ UNCHANGED <<claimVars, rpcVars, taskVars, toolVars, steerVars, metaVars, attachVars,
                   lineVars, planCallVars, codecVars, policyVars>>

\* the teammates of the map and the status of the TeammateRpc of each
WidgetTeammates == {<<>>, <<"w1">>, <<"agent1">>, <<"agent1", "w1">>}

\* ---- task_dep_add, task_dep_rm ----

\* ids of the list that the tasks of S depend on, directly or not, and S
RECURSIVE DepClosure(_, _)
DepClosure(list, S) ==
    LET next == S \cup UNION {SeqToSet(list[i].blockedBy) \cap (1 .. Len(list)) :
                                 i \in S}
    IN IF next = S THEN S ELSE DepClosure(list, next)

\* the list with "taskId depends on depId" recorded on both tasks
AddEdge(list, taskId, depId) ==
    IF depId \in SeqToSet(list[taskId].blockedBy) THEN list
    ELSE [i \in 1 .. Len(list) |->
            IF taskId = depId /\ i = taskId
            THEN [list[i] EXCEPT !.blockedBy = Append(@, depId),
                                 !.blocks = Append(@, taskId)]
            ELSE IF i = taskId THEN [list[i] EXCEPT !.blockedBy = Append(@, depId)]
            ELSE IF i = depId THEN [list[i] EXCEPT !.blocks = Append(@, taskId)]
            ELSE list[i]]

\* addTaskDependency(taskId, depId): rejected if either task is missing or if
\* depId depends on taskId already
addTaskDependency(list, taskId, depId) ==
    IF taskId \notin 1 .. Len(list) \/ depId \notin 1 .. Len(list)
    THEN [ok |-> FALSE, error |-> "Task not found", list |-> list]
    ELSE IF taskId \in DepClosure(list, {depId})
    THEN [ok |-> FALSE, error |-> "Dependency cycle", list |-> list]
    ELSE [ok |-> TRUE, error |-> "", list |-> AddEdge(list, taskId, depId)]

\* removeTaskDependency(taskId, depId)
removeTaskDependency(list, taskId, depId) ==
    IF taskId \notin 1 .. Len(list) \/ depId \notin 1 .. Len(list)
    THEN [ok |-> FALSE, error |-> "Task not found", list |-> list]
    ELSE [ok |-> TRUE, error |-> "", list |->
            [i \in 1 .. Len(list) |->
                LET a == IF i = taskId
                         THEN [list[i] EXCEPT !.blockedBy =
                                  SelectSeq(@, LAMBDA d : d # depId)]
                         ELSE list[i]
                IN IF i = depId
                   THEN [a EXCEPT !.blocks = SelectSeq(@, LAMBDA d : d # taskId)]
                   ELSE a]]

DepActions == {"task_dep_add", "task_dep_rm"}

\* Variant: the handler writes the edge without asking the store.
TaskDep_NoStoreCheck(action, taskId, depId) ==
    /\ ToolCallStarts
    /\ LET res == IF action = "task_dep_add"
                  THEN IF taskId \in 1 .. Len(tasks) /\ depId \in 1 .. Len(tasks)
                       THEN [ok |-> TRUE, error |-> "",
                             list |-> AddEdge(tasks, taskId, depId)]
                       ELSE [ok |-> FALSE, error |-> "Task not found", list |-> tasks]
                  ELSE removeTaskDependency(tasks, taskId, depId)
       IN /\ tasks' = res.list
          /\ toolResult' = [ToolReport(action, "", IF res.ok THEN "ok" ELSE res.error)
                               EXCEPT !.taskId = taskId, !.depId = depId]
    /\ UNCHANGED <<teammates, members, pendingPlanApprovals, teamMailbox, toolCall,
                   nextPlanRequest, rpcStopped>>
    /\ UNCHANGED <<hooksPolicy, leadInbox, taskMailbox, hookFailures>>
    /\ UNCHANGED otherThanTool

\* task_dep_add / task_dep_rm
TaskDep(action, taskId, depId) ==
    /\ ToolCallStarts
    /\ LET res == IF action = "task_dep_add"
                  THEN addTaskDependency(tasks, taskId, depId)
                  ELSE removeTaskDependency(tasks, taskId, depId)
       IN /\ tasks' = res.list
          /\ toolResult' = [ToolReport(action, "", IF res.ok THEN "ok" ELSE res.error)
                               EXCEPT !.taskId = taskId, !.depId = depId]
    /\ UNCHANGED <<teammates, members, pendingPlanApprovals, teamMailbox, toolCall,
                   nextPlanRequest, rpcStopped>>
    /\ UNCHANGED <<hooksPolicy, leadInbox, taskMailbox, hookFailures>>
    /\ UNCHANGED otherThanTool

\* ---- delegate ----

MaxDelegateTasks == 3       \* entries of one delegate call, and tasks in the list

DefaultMaxTeammates == 4    \* params.maxTeammates ?? 4
MaxTeammatesCap == 16       \* Math.min(16, ...)

NoAssignee == ""            \* t.assignee absent
DelegateEntries == [text : {"", "t"}, assignee : {NoAssignee, "w1"}]
DelegateInputs == UNION {[1 .. n -> DelegateEntries] : n \in 0 .. MaxDelegateTasks}
TeammatesParams == {<<>>, <<"w1">>}
MaxTeammatesParams == {Unset, 2}
\* spawnTeammate fails on these attempts of the call, counted from 1
FailingAttempts == SUBSET {1, 2}
\* signal.aborted turns true once and stays true.  abortAt: the entries the
\* task loop reaches before it sees the signal aborted; spawnAbortAt: the names
\* the spawn loop reaches before it sees it (MaxTeammatesCap: all of them)
AbortPoints == {0, 1, MaxDelegateTasks}
SpawnAbortPoints == {0, 1, MaxTeammatesCap}

\* the names that pass "if (signal?.aborted) break" of the spawn loop
SpawnChecksPassed(spawnAbortAt, names) == Min(spawnAbortAt, Len(names))

\* Variant: the task loop does not look at the signal.
EntriesReached_IgnoresSignal(abortAt, spawnAbortAt, names, inputs) == Len(inputs)

\* the entries that pass "if (signal?.aborted) break" of the task loop: none
\* when the spawn loop already broke on the signal
EntriesReached(abortAt, spawnAbortAt, names, inputs) ==
    IF spawnAbortAt < Len(names) THEN 0 ELSE Min(abortAt, Len(inputs))

\* pickAgentNames(count, taken): agent1, agent2, ... skipping taken
pickAgentNames(count, taken) ==
    SubSeq(SelectSeq(AgentNames, LAMBDA n : n \notin taken), 1, count)

\* the names delegate works with: the teammates given, else the running ones,
\* else names picked for min(maxTeammates, #entries) new workers
DelegateTeammateNames(explicit, running, maxTeammatesParam, inputCount) ==
    LET given == SelectSeq([i \in 1 .. Len(explicit) |-> sanitizeName(explicit[i])],
                           LAMBDA n : n # "")
        maxTeammates ==
            Max(1, Min(MaxTeammatesCap,
                       IF maxTeammatesParam = Unset THEN DefaultMaxTeammates
                       ELSE maxTeammatesParam))
        count == Min(maxTeammates, inputCount)
    IN IF given # <<>> THEN given
       ELSE IF running # <<>> THEN running
       ELSE pickAgentNames(count, SeqToSet(running))

\* createTask on a list that is being built
NewTaskIn(list, subject, owner) == [NewTask(subject, owner) EXCEPT !.id = Len(list) + 1]

\* One call of spawnTeammate(name) within delegate.
TrySpawn(d, name, failing) ==
    IF (d.attempts + 1) \in failing
    THEN [d EXCEPT !.attempts = @ + 1]
    ELSE [d EXCEPT !.attempts = @ + 1,
                   !.running = SpawnedTeammates(@, name),
                   !.cfg = SpawnedMembers(@, name),
                   !.stopped = @ \ {name},
                   !.spawned = Append(@, name)]

\* the loop over teammateNames, from names[i] on
RECURSIVE SpawnLoop(_, _, _, _)
SpawnLoop(d, names, i, failing) ==
    IF i > Len(names) THEN d
    ELSE IF names[i] \in SeqToSet(d.running) THEN SpawnLoop(d, names, i + 1, failing)
    ELSE LET d2 == TrySpawn(d, names[i], failing)
         IN IF names[i] \in SeqToSet(d2.running)
            THEN SpawnLoop(d2, names, i + 1, failing)
            ELSE SpawnLoop([d2 EXCEPT !.warnings = Append(@, "Failed to spawn")],
                           names, i + 1, failing)

\* Variant: the task is created but no envelope is written.
DelegateEntry_NoEnvelope(d, e, names, failing) ==
    IF e.text = "" THEN [d EXCEPT !.warnings = Append(@, "Skipping empty task")]
    ELSE LET explicit == e.assignee # NoAssignee
             assignee == IF explicit THEN sanitizeName(e.assignee)
                         ELSE names[(d.rr % Len(names)) + 1]
             d1 == IF explicit THEN d ELSE [d EXCEPT !.rr = @ + 1]
             d2 == IF assignee \in SeqToSet(d1.running) THEN d1
                   ELSE TrySpawn(d1, assignee, failing)
             task == NewTaskIn(d2.list, PlainSubject, assignee)
         IN IF assignee \notin SeqToSet(d2.running)
            THEN [d2 EXCEPT !.warnings = Append(@, "Failed to spawn assignee")]
            ELSE [d2 EXCEPT !.list = Append(@, task),
                            !.assignments = Append(@, [taskId |-> task.id,
                                                       assignee |-> assignee])]

\* Variant: the round-robin index is never advanced.
DelegateEntry_NoRoundRobin(d, e, names, failing) ==
    IF e.text = "" THEN [d EXCEPT !.warnings = Append(@, "Skipping empty task")]
    ELSE LET explicit == e.assignee # NoAssignee
             assignee == IF explicit THEN sanitizeName(e.assignee)
                         ELSE names[(d.rr % Len(names)) + 1]
             d2 == IF assignee \in SeqToSet(d.running) THEN d
                   ELSE TrySpawn(d, assignee, failing)
             task == NewTaskIn(d2.list, PlainSubject, assignee)
         IN IF assignee \notin SeqToSet(d2.running)
            THEN [d2 EXCEPT !.warnings = Append(@, "Failed to spawn assignee")]
            ELSE [d2 EXCEPT !.list = Append(@, task),
                            !.boxes[assignee] = Append(@, TaskAssignment(task.id)),
                            !.assignments = Append(@, [taskId |-> task.id,
                                                       assignee |-> assignee])]

\* Variant: the task is created and assigned whether or not the spawn succeeded.
DelegateEntry_IgnoresSpawnFailure(d, e, names, failing) ==
    IF e.text = "" THEN [d EXCEPT !.warnings = Append(@, "Skipping empty task")]
    ELSE LET explicit == e.assignee # NoAssignee
             assignee == IF explicit THEN sanitizeName(e.assignee)
                         ELSE names[(d.rr % Len(names)) + 1]
             d1 == IF explicit THEN d ELSE [d EXCEPT !.rr = @ + 1]
             d2 == IF assignee \in SeqToSet(d1.running) THEN d1
                   ELSE TrySpawn(d1, assignee, failing)
             d3 == IF assignee \in SeqToSet(d2.running) THEN d2
                   ELSE [d2 EXCEPT !.warnings = Append(@, "Failed to spawn assignee")]
             task == NewTaskIn(d3.list, PlainSubject, assignee)
         IN [d3 EXCEPT !.list = Append(@, task),
                       !.boxes[assignee] = Append(@, TaskAssignment(task.id)),
                       !.assignments = Append(@, [taskId |-> task.id,
                                                  assignee |-> assignee])]

\* one iteration of the loop over inputTasks, on entry e; the sanitized
\* assignee is never empty, so "No assignee available" does not arise
DelegateEntry(d, e, names, failing) ==
    IF e.text = "" THEN [d EXCEPT !.warnings = Append(@, "Skipping empty task")]
    ELSE LET explicit == e.assignee # NoAssignee
             assignee == IF explicit THEN sanitizeName(e.assignee)
                         ELSE names[(d.rr % Len(names)) + 1]
             d1 == IF explicit THEN d ELSE [d EXCEPT !.rr = @ + 1]
             d2 == IF assignee \in SeqToSet(d1.running) THEN d1
                   ELSE TrySpawn(d1, assignee, failing)
             task == NewTaskIn(d2.list, PlainSubject, assignee)
         IN IF assignee \notin SeqToSet(d2.running)
            THEN [d2 EXCEPT !.warnings = Append(@, "Failed to spawn assignee")]
            ELSE [d2 EXCEPT !.list = Append(@, task),
                            !.boxes[assignee] = Append(@, TaskAssignment(task.id)),
                            !.assignments = Append(@, [taskId |-> task.id,
                                                       assignee |-> assignee])]

\* the loop over inputTasks, entries i .. last
RECURSIVE TaskLoop(_, _, _, _, _, _)
TaskLoop(d, inputs, i, last, names, failing) ==
    IF i > last THEN d
    ELSE TaskLoop(DelegateEntry(d, inputs[i], names, failing),
                  inputs, i + 1, last, names, failing)

\* delegate from its first statement to its return
DelegateRun(inputs, explicit, maxTeammatesParam, failing, abortAt, spawnAbortAt) ==
    /\ IF inputs = <<>>
       THEN /\ toolResult' = ToolReport("delegate", "", "No tasks provided")
            /\ UNCHANGED <<teammates, members, rpcStopped, tasks, taskMailbox>>
       ELSE LET names == DelegateTeammateNames(explicit, teammates, maxTeammatesParam,
                                               Len(inputs))
                d0 == [running |-> teammates, cfg |-> members, stopped |-> rpcStopped,
                       list |-> tasks, boxes |-> taskMailbox, rr |-> 0, attempts |-> 0,
                       spawned |-> <<>>, assignments |-> <<>>, warnings |-> <<>>]
                d1 == SpawnLoop(d0, SubSeq(names, 1, SpawnChecksPassed(spawnAbortAt, names)),
                                1, failing)
                d2 == TaskLoop(d1, inputs, 1,
                               EntriesReached(abortAt, spawnAbortAt, names, inputs),
                               names, failing)
            IN /\ teammates' = d2.running
               /\ members' = d2.cfg
               /\ rpcStopped' = d2.stopped
               /\ tasks' = d2.list
               /\ taskMailbox' = d2.boxes
               /\ toolResult' =
                    [ToolReport("delegate", "", "Delegated") EXCEPT !.details =
                        [spawned |-> d2.spawned, assignments |-> d2.assignments,
                         warnings |-> d2.warnings]]
    /\ opClock' = opClock + 1
    /\ lastRequest' = NoRequest
    /\ UNCHANGED <<pendingPlanApprovals, teamMailbox, nextPlanRequest>>
    /\ UNCHANGED <<hooksPolicy, leadInbox, hookFailures>>
    /\ UNCHANGED otherThanTool

\* a delegate call among other tool calls
Delegate(inputs, explicit, maxTeammatesParam, failing, abortAt) ==
    /\ toolCall = NoToolCall
    /\ opClock < MaxOps
    /\ Len(tasks) + Len(inputs) <= MaxDelegateTasks
    /\ DelegateRun(inputs, explicit, maxTeammatesParam, failing, abortAt, MaxTeammatesCap)
    /\ UNCHANGED toolCall

\* the delegate call the agent loop has issued
DelegateIssued ==
    /\ toolCall.action = "delegate"
    /\ DelegateRun(toolCall.params.tasks, toolCall.params.teammates,
                   toolCall.params.maxTeammates, toolCall.params.failing,
                   toolCall.params.abortAt, toolCall.params.spawnAbortAt)
    /\ toolCall' = NoToolCall

\* every delegate call within the bounds
DelegateCalls ==
    {[NoToolCall EXCEPT !.action = "delegate", !.params = p] :
        p \in [tasks : DelegateInputs, teammates : TeammatesParams,
               maxTeammates : MaxTeammatesParams, failing : FailingAttempts,
               abortAt : AbortPoints, spawnAbortAt : SpawnAbortPoints]}

\* a delegate call meets no teammate, one, or two
RunningBefore == {<<>>, <<"w1">>, <<"agent1", "w1">>}

\* ---- message_steer ----

\* message_steer on the teammate whose TeammateRpc the RPC variables describe,
\* up to the await of rpc.steer(message); the map holds a teammate with a child
MessageSteer ==
    /\ steerCalls = {}
    /\ NoReadyStop
    /\ steerCalls' = {nextId}
    /\ SendRequest
    /\ lastResponse' = -1
    /\ UNCHANGED <<status, lastError, lastAssistantText, proc, child, bootTimers,
                   killTimers, stops, outcomes, escalationDue, stopThrew>>
    /\ UNCHANGED executeThrew
    /\ UNCHANGED <<claimVars, taskVars, toolVars, metaVars, attachVars,
            widgetVars, lineVars, planCallVars, codecVars, policyVars>>

\* message_steer after the promise of its request is settled: execute returns
\* {content, details} if it was resolved and is rejected itself if it was not
SteerSettled(id) ==
    /\ id \in steerCalls
    /\ outcomes[id] # <<>>
    /\ steerCalls' = steerCalls \ {id}
    /\ executeThrew' = (executeThrew \/ outcomes[id][1] # "resolved")
    /\ lastResponse' = -1
    /\ UNCHANGED <<status, lastError, lastAssistantText, proc, pending, nextId, child,
                   bootTimers, killTimers, reqTimers, stops, outcomes, escalationDue,
                   stopThrew>>
    /\ UNCHANGED <<claimVars, taskVars, toolVars, metaVars, attachVars,
            widgetVars, lineVars, planCallVars, codecVars, policyVars>>

NextSteer ==
    \/ NextRpc
    \/ MessageSteer
    \/ \E id \in RequestIds : SteerSettled(id)

ToolInit ==
    /\ teammates = <<>>
    /\ members = [n \in ToolNames |-> "none"]
    /\ pendingPlanApprovals = [n \in ToolNames |-> <<>>]
    /\ teamMailbox = [n \in ToolNames |-> <<>>]
    /\ toolCall = NoToolCall
    /\ toolResult = NoToolResult
    /\ nextPlanRequest = 0
    /\ rpcStopped = {}
    /\ memberMeta = [n \in ToolNames |-> NoMeta]
    /\ uuids = 0

SteerInit ==
    /\ steerCalls = {}
    /\ executeThrew = FALSE

FeedbackInputs == {"", "split the change"}

\* plan approvals: the coordinator relays requests, the tool decides them
NextPlan ==
    \/ \E w \in GivenNames : RelayPlanRequest(w)
    \/ \E action \in PlanDecisions, name \in GivenNames \cup {""}, fb \in FeedbackInputs :
          PlanDecide(action, name, fb)
    \/ PlanDecideWritten

\* members and tasks
NextTool ==
    \/ \E name \in GivenNames \cup {""}, spawnOk \in BOOLEAN : MemberSpawn(name, spawnOk)
    \/ \E name \in GivenNames \cup {""} : MemberKill(name)
    \/ MemberKillStopped
    \/ MemberKillUnassigned
    \/ MemberKillOffline
    \/ \E inputs \in {q \in DelegateInputs : Len(q) <= 2}, explicit \in TeammatesParams :
          Delegate(inputs, explicit, Unset, {}, MaxDelegateTasks)
    \/ \E id \in TaskIdParams, st \in TaskStatuses :
          toolCall = NoToolCall /\ TaskSetStatus(id, st)
    \/ \E id \in TaskIdParams, assignee \in GivenNames \cup {""} : TaskAssign(id, assignee)
    \/ \E id \in TaskIdParams : TaskUnassign(id)
    \/ \E action \in DepActions, id \in TaskIdParams, dep \in TaskIdParams :
          TaskDep(action, id, dep)
    \/ \E all \in BOOLEAN : MemberPrune(all)

(***************************************************************************)
(*                             SPECIFICATIONS                              *)
(***************************************************************************)

InitClaim ==
    /\ claimFile \in InitialClaimFiles /\ ClaimInit
    /\ RpcInit
    /\ hooksPolicy = DefaultPolicy /\ TasksInit
    /\ ToolInit /\ SteerInit /\ AttachInit /\
            WidgetInit /\ LinesInit /\ PlanCallsInit /\ CodecInit /\ PolicyInit

InitRpc ==
    /\ claimFile = <<>> /\ ClaimInit
    /\ RpcInit
    /\ hooksPolicy = DefaultPolicy /\ TasksInit
    /\ ToolInit /\ SteerInit /\ AttachInit /\
            WidgetInit /\ LinesInit /\ PlanCallsInit /\ CodecInit /\ PolicyInit

InitTasks ==
    /\ claimFile = <<>> /\ ClaimInit
    /\ RpcInit
    /\ hooksPolicy \in Policies /\ TasksInit
    /\ ToolInit /\ SteerInit /\ AttachInit /\
            WidgetInit /\ LinesInit /\ PlanCallsInit /\ CodecInit /\ PolicyInit

InitTool ==
    /\ claimFile = <<>> /\ ClaimInit
    /\ RpcInit
    /\ hooksPolicy = DefaultPolicy /\ TasksInit
    /\ ToolInit /\ SteerInit /\ AttachInit /\
            WidgetInit /\ LinesInit /\ PlanCallsInit /\ CodecInit /\ PolicyInit

SpecClaim == InitClaim /\ [][NextClaim]_vars

SpecTool == InitTool /\ [][NextTool]_vars

\* /team attach and /team detach of two sessions
SpecAttach == InitRpc /\ [][NextAttach]_vars

\* isDeprecatedTeammateModelId on every model id within the bounds
InitPolicy ==
    /\ claimFile = <<>> /\ ClaimInit
    /\ RpcInit
    /\ hooksPolicy = DefaultPolicy /\ TasksInit
    /\ ToolInit /\ SteerInit /\ AttachInit /\ WidgetInit /\ LinesInit /\ PlanCallsInit /\ CodecInit
    /\ modelId \in ModelIds
    /\ deprecated = <<>>
    /\ selectionInput = NoSelectionInput
    /\ selection = <<>>

SpecPolicy == InitPolicy /\ [][CheckModelId]_vars

\* the protocol parsers on every text within the bounds
InitCodec ==
    /\ claimFile = <<>> /\ ClaimInit
    /\ RpcInit
    /\ hooksPolicy = DefaultPolicy /\ TasksInit
    /\ ToolInit /\ SteerInit /\ AttachInit /\ WidgetInit /\ LinesInit /\ PlanCallsInit /\ PolicyInit
    /\ mailText \in Texts
    /\ parsed = <<>>

SpecCodec == InitCodec /\ [][ParseMessage]_vars

\* spawnTeammate(ctx, {name, model}): the model selection is resolved first; a
\* rejected selection is reported and nothing is launched, otherwise the RPC is
\* registered and the member marked online
SpawnWithModel(name) ==
    /\ selection = <<>>
    /\ selection' = <<resolveTeammateModelSelection(selectionInput)>>
    /\ IF selection'[1].ok
       THEN /\ teammates' = SpawnedTeammates(teammates, name)
            /\ members' = SpawnedMembers(members, name)
       ELSE UNCHANGED <<teammates, members>>
    /\ UNCHANGED <<modelId, deprecated, selectionInput>>
    /\ UNCHANGED <<pendingPlanApprovals, teamMailbox, toolCall, toolResult,
                   nextPlanRequest, rpcStopped>>
    /\ UNCHANGED <<claimVars, rpcVars, taskVars, steerVars, metaVars, attachVars,
            widgetVars, lineVars, planCallVars, codecVars>>

\* /team spawn <name> --model <override>, for every selection input within the bounds
InitSelection ==
    /\ claimFile = <<>> /\ ClaimInit
    /\ RpcInit
    /\ hooksPolicy = DefaultPolicy /\ TasksInit
    /\ ToolInit /\ SteerInit /\ AttachInit /\ WidgetInit /\ LinesInit /\ PlanCallsInit /\ CodecInit
    /\ modelId = <<>>
    /\ deprecated = <<>>
    /\ selectionInput \in SelectionInputs
    /\ selection = <<>>

NextSelection == \E name \in Workers : SpawnWithModel(name)

SpecSelection == InitSelection /\ [][NextSelection]_vars

SpecPlan == InitTool /\ [][NextPlan]_vars

\* plan approvals relayed while plan_approve / plan_reject calls overlap
NextPlanCalls ==
    \/ \E w \in GivenNames : RelayPlanRequest(w)
    \/ \E action \in PlanDecisions, name \in GivenNames \cup {""}, fb \in FeedbackInputs :
          PlanCallStart(action, name, fb)
    \/ \E i \in 1 .. MaxPlanCalls : PlanCallWritten(i)

SpecPlanCalls == InitTool /\ [][NextPlanCalls]_vars

\* One delegate call, for every call within the bounds.
InitDelegate ==
    /\ claimFile = <<>> /\ ClaimInit
    /\ RpcInit
    /\ hooksPolicy = DefaultPolicy /\ TasksInit
    /\ SteerInit /\ AttachInit /\
            WidgetInit /\ LinesInit /\ PlanCallsInit /\ CodecInit /\ PolicyInit
    /\ teammates \in RunningBefore
    /\ members = [n \in ToolNames |-> IF n \in SeqToSet(teammates) THEN "online" ELSE "none"]
    /\ pendingPlanApprovals = [n \in ToolNames |-> <<>>]
    /\ teamMailbox = [n \in ToolNames |-> <<>>]
    /\ toolCall \in DelegateCalls
    /\ toolResult = NoToolResult
    /\ nextPlanRequest = 0
    /\ rpcStopped = {}
    /\ memberMeta = [n \in ToolNames |-> NoMeta]
    /\ uuids = 0

SpecDelegate == InitDelegate /\ [][DelegateIssued]_vars

\* Calls of task_assign and task_set_status, for every stored list within
\* the bounds.
InitAssign ==
    /\ claimFile = <<>> /\ ClaimInit
    /\ RpcInit
    /\ hooksPolicy = DefaultPolicy
    /\ tasks \in StoredTaskLists
    /\ leadInbox = <<>>
    /\ taskMailbox = [n \in MailboxNames |-> <<>>]
    /\ opClock = 0
    /\ lastRequest = NoRequest
    /\ hookFailures = [i \in TaskIds |-> 0]
    /\ ToolInit /\ SteerInit /\ AttachInit /\
            WidgetInit /\ LinesInit /\ PlanCallsInit /\ CodecInit /\ PolicyInit

SpecAssign == InitAssign /\ [][NextAssign]_vars

\* Calls of member_prune, member_shutdown and message_broadcast, for every
\* team within the bounds.
InitMembers ==
    /\ claimFile = <<>> /\ ClaimInit
    /\ RpcInit
    /\ hooksPolicy = DefaultPolicy
    /\ tasks \in MemberTaskLists
    /\ leadInbox = <<>>
    /\ taskMailbox = [n \in MailboxNames |-> <<>>]
    /\ opClock = 0
    /\ lastRequest = NoRequest
    /\ hookFailures = [i \in TaskIds |-> 0]
    /\ SteerInit /\ AttachInit /\
            WidgetInit /\ LinesInit /\ PlanCallsInit /\ CodecInit /\ PolicyInit
    /\ members \in MemberStates
    /\ teammates \in {q \in RunningBefore : \A n \in SeqToSet(q) : members[n] = "online"}
    /\ memberMeta \in {[n \in ToolNames |->
                           IF n = "w1" /\ members[n] # "none"
                           THEN [NoMeta EXCEPT !.lastSeenAge = age] ELSE NoMeta] :
                        age \in LastSeenAges}
    /\ pendingPlanApprovals = [n \in ToolNames |-> <<>>]
    /\ teamMailbox = [n \in ToolNames |-> <<>>]
    /\ toolCall = NoToolCall
    /\ toolResult = NoToolResult
    /\ nextPlanRequest = 0
    /\ rpcStopped = {}
    /\ uuids = 0

SpecMembers == InitMembers /\ [][NextMembers]_vars

\* the widget drawn from every state of teammates, tasks and config within the bounds
InitWidget ==
    /\ claimFile = <<>> /\ ClaimInit
    /\ RpcInit
    /\ hooksPolicy = DefaultPolicy
    /\ tasks \in StoredTaskLists
    /\ leadInbox = <<>>
    /\ taskMailbox = [n \in MailboxNames |-> <<>>]
    /\ opClock = 0
    /\ lastRequest = NoRequest
    /\ hookFailures = [i \in TaskIds |-> 0]
    /\ SteerInit /\ AttachInit /\ LinesInit /\ PlanCallsInit /\ CodecInit /\ PolicyInit
    /\ teammates \in WidgetTeammates
    /\ members \in {[n \in ToolNames |-> IF n = "w1" THEN a ELSE IF n = "agent1" THEN b
                                        ELSE "none"] :
                        a \in {"none", "online", "offline"}, b \in {"none", "online", "offline"}}
    /\ rpcStatusOf \in {f \in [ToolNames -> RpcStatuses] :
                            \A n \in ToolNames : n \notin SeqToSet(teammates) => f[n] = "stopped"}
    /\ delegateMode \in BOOLEAN
    /\ widget = <<>>
    /\ pendingPlanApprovals = [n \in ToolNames |-> <<>>]
    /\ teamMailbox = [n \in ToolNames |-> <<>>]
    /\ toolCall = NoToolCall
    /\ toolResult = NoToolResult
    /\ nextPlanRequest = 0
    /\ rpcStopped = {}
    /\ memberMeta = [n \in ToolNames |-> NoMeta]
    /\ uuids = 0

SpecWidget == InitWidget /\ [][RenderWidget]_vars

SpecRpc == InitRpc /\ [][NextRpc]_vars

\* a teammate that is started and sent requests while its child prints lines
NextLines ==
    \/ Start
    \/ BootDone
    \/ Send
    \/ \E p \in Children, line \in StdoutLines : HandleLine(p, line)

SpecLines == InitRpc /\ [][NextLines]_vars

SpecSteer == InitRpc /\ [][NextSteer]_vars

SpecTasks == InitTasks /\ [][NextTasks]_vars

\* The leader keeps polling its mailbox.
SpecTasksLive ==
    /\ InitTasks /\ [][NextTasks]_vars
    /\ WF_vars(\E hookOk \in BOOLEAN : HandleIdleNotification(hookOk))

\* Timers fire and microtasks run.
SpecRpcLive ==
    /\ InitRpc /\ [][NextRpc]_vars
    /\ \A id \in RequestIds : WF_vars(RequestTimeout(id))
    /\ \A id \in RequestIds : WF_vars(StopResume(id))

(***************************************************************************)
(*                      ATTACH CLAIM: PROPERTIES                           *)
(***************************************************************************)

\* Session s leaves its critical section in this step.
Finishing(s) == pc[s] = "locked" /\ pc'[s] = "idle"

\* Staleness as the data model defines it, spelled out on the timestamps.
HeartbeatReadable(c) == c.heartbeatAt.iso
OlderThan(c, nowMs, staleMs) == nowMs - c.heartbeatAt.ms > staleMs
StaleClaim(c, nowMs, staleMs) == ~HeartbeatReadable(c) \/ OlderThan(c, nowMs, staleMs)

\* The last calls of s and t are acquires without force that ran concurrently
\* and were both issued when the file held no claim or only a stale one, and
\* both have returned.
ConcurrentAcquirePair(s, t) ==
    /\ s # t
    /\ pc[s] = "idle" /\ pc[t] = "idle"
    /\ result[s].op = "acquire" /\ result[t].op = "acquire"
    /\ ~result[s].force /\ ~result[t].force
    /\ result[s].overlap /\ result[t].overlap
    /\ result[s].issuedFree /\ result[t].issuedFree

C2_FreshClaimKept ==
    [][/\ \A s \in Sessions :
             (/\ Finishing(s)
              /\ call[s].op = "acquire" /\ ~call[s].force
              /\ call[s].current # <<>>
              /\ call[s].current[1].holderSessionId # s
              /\ ~StaleClaim(call[s].current[1], call[s].nowMs, call[s].staleMs))
             => /\ ~result'[s].ok
                /\ result'[s].reason = "claimed_by_other"
                /\ result'[s].claim = call[s].current
                /\ claimFile' = claimFile
       /\ (/\ claimFile # <<>>
           /\ \/ claimFile' = <<>>
              \/ claimFile'[1].holderSessionId # claimFile[1].holderSessionId)
          => \E s \in Sessions :
                /\ Finishing(s)
                /\ \/ call[s].op = "release"
                      /\ (call[s].force \/ claimFile[1].holderSessionId = s)
                   \/ call[s].op = "acquire"
                      /\ \/ call[s].force
                         \/ StaleClaim(claimFile[1], call[s].nowMs, call[s].staleMs)
      ]_vars

\* A holder has heartbeated and another session's acquire was refused with
\* the holder's claim, which is still the one on disk.
C2_Witness ==
    \E s, t \in Sessions :
        /\ s # t
        /\ result[t].op = "heartbeat" /\ result[t].reason = "updated"
        /\ result[s].op = "acquire" /\ result[s].reason = "claimed_by_other"
        /\ result[s].claim = claimFile
        /\ claimFile[1].holderSessionId = t

\* C3 as stated: every acquire without force that finds a claim whose
\* heartbeatAt is older than staleMs (or unreadable) returns ok:true, makes
\* the caller the holder and reports the claim it found as replaced.
C3_StaleAlwaysReplaced ==
    [][\A s \in Sessions :
          (/\ Finishing(s)
           /\ call[s].op = "acquire" /\ ~call[s].force
           /\ call[s].current # <<>>
           /\ StaleClaim(call[s].current[1], call[s].nowMs, call[s].staleMs))
          => /\ result'[s].ok
             /\ claimFile'[1].holderSessionId = s
             /\ result'[s].replacedClaim = call[s].current
      ]_vars

\* C3 amended: such an acquire returns ok:true and makes the caller the
\* holder; it reports the claim it found as replaced when that claim belongs
\* to another session, and reports no replaced claim when it is the caller's
\* own.  A claim of another session whose age is at most staleMs is not stale:
\* the acquire is refused.
C3_StaleTakenOver ==
    [][\A s \in Sessions :
          (/\ Finishing(s)
           /\ call[s].op = "acquire" /\ ~call[s].force
           /\ call[s].current # <<>>)
          => LET cur == call[s].current[1] IN
             /\ StaleClaim(cur, call[s].nowMs, call[s].staleMs)
                => /\ result'[s].ok
                   /\ claimFile' = result'[s].claim
                   /\ claimFile'[1].holderSessionId = s
                   /\ claimFile'[1].heartbeatAt = toISOString(call[s].nowMs)
                   /\ result'[s].replacedClaim =
                         IF cur.holderSessionId = s THEN <<>> ELSE <<cur>>
             /\ (~StaleClaim(cur, call[s].nowMs, call[s].staleMs)
                 /\ cur.holderSessionId # s)
                => ~result'[s].ok
      ]_vars

\* Scenario S2: s2 has acquired over the claim of s1 whose heartbeat was 60 s old.
C3_Witness ==
    /\ result["s2"].op = "acquire" /\ ~result["s2"].force /\ result["s2"].ok
    /\ result["s2"].replacedClaim # <<>>
    /\ result["s2"].replacedClaim[1].holderSessionId = "s1"
    /\ result["s2"].claim[1].heartbeatAt.ms
         - result["s2"].replacedClaim[1].heartbeatAt.ms = 60000
    /\ claimFile = result["s2"].claim

\* C18: an acquire by the session that holds the claim succeeds, with or
\* without force and whatever the claim's age: heartbeatAt becomes the call's
\* now, holderSessionId and claimedAt stay, and no claim is reported replaced.
C18_HolderAcquireRefreshes ==
    [][\A s \in Sessions :
          (/\ Finishing(s)
           /\ call[s].op = "acquire"
           /\ call[s].current # <<>>
           /\ call[s].current[1].holderSessionId = s)
          => /\ result'[s].ok
             /\ result'[s].replacedClaim = <<>>
             /\ claimFile' = result'[s].claim
             /\ claimFile'[1].holderSessionId = s
             /\ claimFile'[1].claimedAt = call[s].current[1].claimedAt
             /\ claimFile'[1].heartbeatAt = toISOString(call[s].nowMs)
      ]_vars

\* A holder has re-acquired the claim some time after it took it; the
\* refreshed claim is on disk.
C18_Witness ==
    \E s \in Sessions :
        /\ result[s].op = "acquire" /\ result[s].ok
        /\ result[s].replacedClaim = <<>>
        /\ claimFile = result[s].claim
        /\ claimFile[1].claimedAt = toISOString(0)
        /\ claimFile[1].heartbeatAt.ms > 0

DecisionsFor(name, r) ==
    {i \in 1 .. Len(teamMailbox[name]) :
        /\ teamMailbox[name][i].type \in {"plan_approved", "plan_rejected"}
        /\ teamMailbox[name][i].requestId = r}

Running == SeqToSet(teammates)

\* tasks of the list that name owns and that are not completed
OpenTasksOf(list, name) ==
    {i \in 1 .. Len(list) : list[i].owner = name /\ list[i].status # "completed"}

KillStep(from) == toolCall.action = "member_kill" /\ toolCall.step = from

DelegateReturns == toolCall.action = "delegate" /\ toolCall' = NoToolCall

\* task_assignment envelopes written in this step, over all mailboxes
RECURSIVE SumOver(_, _)
SumOver(f, S) ==
    IF S = {} THEN 0
    ELSE LET x == CHOOSE y \in S : TRUE IN f[x] + SumOver(f, S \ {x})

NewEnvelopeCount ==
    SumOver([n \in MailboxNames |-> Len(taskMailbox'[n]) - Len(taskMailbox[n])],
            MailboxNames)

CountOf(q, x) == Cardinality({i \in 1 .. Len(q) : q[i] = x})

\* the envelopes the assignments a call for: those of recipient n, in order
EnvelopesFor(a, n) ==
    LET mine == SelectSeq(a, LAMBDA x : x.assignee = n)
    IN [j \in 1 .. Len(mine) |-> TaskAssignment(mine[j].taskId)]

\* the names the call works with, as the state before the call gives them
NamesOf(params) ==
    DelegateTeammateNames(params.teammates, teammates, params.maxTeammates,
                          Len(params.tasks))

\* the signal is not aborted before the spawn loop has ended
SpawnLoopEnds(params) == params.spawnAbortAt >= Len(NamesOf(params))

\* the entries the task loop reaches before the abort
Reached(params) ==
    SubSeq(params.tasks, 1,
           IF SpawnLoopEnds(params) THEN Min(params.abortAt, Len(params.tasks)) ELSE 0)

\* C13 (as stated): delegate creates exactly one task per input entry and one
\* task_assignment envelope per created task; the number of new tasks equals
\* the number of inputs.
C13_OneTaskPerInput ==
    [][DelegateReturns =>
          /\ Len(tasks') = Len(tasks) + Len(toolCall.params.tasks)
          /\ NewEnvelopeCount = Len(tasks') - Len(tasks)
      ]_vars

\* C13 (amended): delegate creates one task for each entry it does not skip and
\* writes one task_assignment envelope for each created task to the mailbox of
\* its owner. It skips, with a warning, an entry whose text is empty and an
\* entry whose assignee cannot be spawned, and it skips every entry after the
\* abort. The new tasks are the assignments it reports.
C13_OneTaskPerAssignment ==
    [][DelegateReturns =>
          LET a == toolResult'.details.assignments
              w == toolResult'.details.warnings
              reached == Reached(toolCall.params)
              withText == SelectSeq(reached, LAMBDA e : e.text # "")
          IN /\ Len(tasks') = Len(tasks) + Len(a)
             /\ SubSeq(tasks', 1, Len(tasks)) = tasks
             /\ \A j \in 1 .. Len(a) :
                   /\ a[j].taskId = Len(tasks) + j
                   /\ tasks'[a[j].taskId].id = a[j].taskId
                   /\ tasks'[a[j].taskId].owner = a[j].assignee
                   /\ tasks'[a[j].taskId].status = "pending"
             /\ \A n \in MailboxNames :
                   taskMailbox'[n] = taskMailbox[n] \o EnvelopesFor(a, n)
             /\ NewEnvelopeCount = Len(a)
             /\ CountOf(w, "Skipping empty task") = Len(reached) - Len(withText)
             /\ Len(a) = Len(withText) - CountOf(w, "Failed to spawn assignee")
             /\ Len(a) <= Len(toolCall.params.tasks)
      ]_vars

\* A call with three entries, one of them empty, has returned: two tasks, two
\* assignments, and the warning of the skipped entry.
C13_Witness ==
    /\ toolCall = NoToolCall
    /\ toolResult.action = "delegate"
    /\ Len(toolResult.details.assignments) = 2
    /\ Len(tasks) = 2
    /\ toolResult.details.warnings = <<"Skipping empty task">>
    /\ \E n \in MailboxNames : Len(taskMailbox[n]) = 2

\* a is b with some elements left out
RECURSIVE IsSubseq(_, _)
IsSubseq(a, b) ==
    IF a = <<>> THEN TRUE
    ELSE IF b = <<>> THEN FALSE
    ELSE IF Head(a) = Head(b) THEN IsSubseq(Tail(a), Tail(b))
    ELSE IsSubseq(a, Tail(b))

\* maxTeammates as the schema reads it: 4 when absent, within 1 .. 16
EffectiveMaxTeammates(params) ==
    IF params.maxTeammates = Unset THEN DefaultMaxTeammates ELSE params.maxTeammates

\* the owner the round-robin rule gives each entry of q: an entry without
\* assignee that has k such entries before it goes to names[k mod n]
RoundRobinOwners(q, names) ==
    [m \in 1 .. Len(q) |->
        IF q[m].assignee # NoAssignee THEN q[m].assignee
        ELSE names[(Cardinality({j \in 1 .. (m - 1) : q[j].assignee = NoAssignee})
                    % Len(names)) + 1]]

\* C14: a delegate call without teammates list that meets no running teammate
\* names min(maxTeammates, #entries) workers agent1, agent2, ... and gives the
\* k-th task without assignee to worker k mod n; tasks A, B, C with
\* maxTeammates 2 go to agent1, agent2, agent1 with three envelopes.
C14_AutoNamesRoundRobin ==
    [][(/\ DelegateReturns
        /\ toolCall.params.tasks # <<>>
        /\ toolCall.params.teammates = <<>>
        /\ teammates = <<>>) =>
          LET params == toolCall.params
              n == Min(EffectiveMaxTeammates(params), Len(params.tasks))
              names == SubSeq(AgentNames, 1, n)
              a == toolResult'.details.assignments
              w == toolResult'.details.warnings
              owners == [j \in 1 .. Len(a) |-> a[j].assignee]
              withText == SelectSeq(Reached(params), LAMBDA e : e.text # "")
              expected == RoundRobinOwners(withText, names)
          IN /\ Running' \cap SeqToSet(AgentNames) \subseteq SeqToSet(names)
             /\ (params.failing = {} /\ SpawnLoopEnds(params))
                   => SelectSeq(teammates', LAMBDA x : x \in SeqToSet(AgentNames)) = names
             /\ IsSubseq(owners, expected)
             /\ Len(owners) = Len(expected) - CountOf(w, "Failed to spawn assignee")
             /\ \A j \in 1 .. Len(a) : tasks'[a[j].taskId].owner = owners[j]
             /\ (/\ params.tasks = [i \in 1 .. 3 |-> [text |-> "t", assignee |-> NoAssignee]]
                 /\ params.maxTeammates = 2
                 /\ params.failing = {} /\ params.abortAt >= 3
                 /\ SpawnLoopEnds(params))
                   => /\ owners = <<"agent1", "agent2", "agent1">>
                      /\ NewEnvelopeCount = 3
      ]_vars

\* Tasks A, B, C were delegated with maxTeammates 2 to a team without
\* teammates: agent1 and agent2 run, agent1 has two assignments, agent2 one.
C14_Witness ==
    /\ toolCall = NoToolCall
    /\ teammates = <<"agent1", "agent2">>
    /\ Len(tasks) = 3
    /\ tasks[1].owner = "agent1" /\ tasks[2].owner = "agent2" /\ tasks[3].owner = "agent1"
    /\ taskMailbox["agent1"] = <<TaskAssignment(1), TaskAssignment(3)>>
    /\ taskMailbox["agent2"] = <<TaskAssignment(2)>>
    /\ toolResult.details.warnings = <<>>

\* ---- owners and members ----

\* name is recorded in the team config
KnownMember(name) == name \in ToolNames /\ members[name] # "none"

\* C16: after any sequence of delegate, task_assign, task_unassign,
\* member_spawn, member_kill and member_prune, the owner of every task is unset
\* or a member recorded in the team config.
C16_OwnerIsMember ==
    \A i \in 1 .. Len(tasks) : tasks[i].owner = "" \/ KnownMember(tasks[i].owner)

\* ---- dependencies ----

\* no task depends on itself, directly or through other tasks
Acyclic(list) ==
    \A i \in 1 .. Len(list) :
        i \notin DepClosure(list, SeqToSet(list[i].blockedBy) \cap (1 .. Len(list)))

\* This step is the task_dep_add call on taskId and depId.
DepAddReturns(taskId, depId) ==
    /\ opClock' = opClock + 1
    /\ lastRequest' = NoRequest
    /\ toolResult'.action = "task_dep_add"
    /\ toolResult'.taskId = taskId /\ toolResult'.depId = depId

\* C17: the dependency graph is acyclic after every sequence of task_dep_add,
\* task_dep_rm and task updates; a task_dep_add that names a missing task or
\* would close a cycle is answered ok:false and leaves the store as it was.
C17_DependenciesAcyclic ==
    /\ [](Acyclic(tasks))
    /\ [][\A taskId \in 1 .. (MaxDelegateTasks + 1), depId \in 1 .. (MaxDelegateTasks + 1) :
             DepAddReturns(taskId, depId) =>
                IF \/ taskId \notin 1 .. Len(tasks)
                   \/ depId \notin 1 .. Len(tasks)
                   \/ ~Acyclic(AddEdge(tasks, taskId, depId))
                THEN /\ toolResult'.text \in {"Task not found", "Dependency cycle"}
                     /\ tasks' = tasks
                ELSE /\ toolResult'.text = "ok"
                     /\ depId \in SeqToSet(tasks'[taskId].blockedBy)
                     /\ taskId \in SeqToSet(tasks'[depId].blocks)
      ]_vars

\* Scenario S3: task 1 depends on task 2, and the request to make task 2
\* depend on task 1 was refused as a cycle.
C17_Witness ==
    /\ Len(tasks) >= 2
    /\ tasks[1].blockedBy = <<2>>
    /\ tasks[2].blocks = <<1>>
    /\ tasks[2].blockedBy = <<>>
    /\ toolResult.action = "task_dep_add"
    /\ toolResult.taskId = 2 /\ toolResult.depId = 1
    /\ toolResult.text = "Dependency cycle"

\* ---- execute ----

\* C15: no action of the teams tool throws to its caller: execute always
\* returns {content, details}.
C15_ExecuteNeverThrows == ~executeThrew


\* C22: delegate honors the abort signal.  Once the signal is set the spawn
\* loop starts no further spawn and the task loop starts no further entry (the
\* entry in flight finishes), and delegate still returns its result, which
\* reports the assignments made so far.
C22_DelegateHonorsAbort ==
    [][(DelegateReturns /\ toolCall.params.tasks # <<>>) =>
          LET params == toolCall.params
              names == NamesOf(params)
              checked == SubSeq(names, 1, Min(params.spawnAbortAt, Len(names)))
              started == IF params.spawnAbortAt < Len(names) THEN 0
                         ELSE Min(params.abortAt, Len(params.tasks))
              r == toolResult'.details
              loopFailures == CountOf(r.warnings, "Failed to spawn")
              entryFailures == CountOf(r.warnings, "Failed to spawn assignee")
          IN /\ toolResult'.action = "delegate"
             /\ toolResult'.text = "Delegated"
             \* spawns: one attempt at most for each name and entry reached
             /\ loopFailures <= Len(checked)
             /\ Len(r.spawned) + loopFailures + entryFailures <= Len(checked) + started
             /\ Running' \ Running = SeqToSet(r.spawned)
             /\ started = 0 => SeqToSet(r.spawned) \subseteq SeqToSet(checked)
             \* entries: nothing is created for an entry after the abort
             /\ Len(r.assignments) + entryFailures
                   + CountOf(r.warnings, "Skipping empty task") = started
             /\ Len(tasks') = Len(tasks) + Len(r.assignments)
             /\ NewEnvelopeCount = Len(r.assignments)
             /\ \A j \in 1 .. Len(r.assignments) :
                   /\ r.assignments[j].taskId = Len(tasks) + j
                   /\ tasks'[Len(tasks) + j].owner = r.assignments[j].assignee
             \* aborted before the call: nothing happens at all
             /\ params.spawnAbortAt = 0 =>
                   /\ r = NoDetails
                   /\ UNCHANGED <<teammates, members, tasks, taskMailbox>>
      ]_vars

\* A call for two or more workers was aborted after its first spawn: agent1
\* runs, no task exists, and the result reports no assignment and no warning.
C22_Witness ==
    /\ toolCall = NoToolCall
    /\ toolResult.action = "delegate"
    /\ toolResult.text = "Delegated"
    /\ toolResult.details = [spawned |-> <<"agent1">>, assignments |-> <<>>,
                             warnings |-> <<>>]
    /\ teammates = <<"agent1">>
    /\ tasks = <<>>


\* the name sanitizeName gives for the assignee of a call
SanitizedAssignee(raw) == IF raw = "w@1" THEN "w-1" ELSE raw

C24_SameOwnerNoOp ==
    [][\A taskId \in TaskIdParams, raw \in AssigneeParams \ {""} :
          (/\ TaskAssign(taskId, raw)
           /\ taskId \in 1 .. Len(tasks)
           /\ tasks[taskId].owner = SanitizedAssignee(raw)) => tasks' = tasks
      ]_vars

\* C25: task_set_status is idempotent.  Setting a task to the status it has
\* changes nothing, no completedAt or reopenedAt stamp included, so a second
\* task_set_status(t, s) right after the first leaves the list as the first
\* left it.
C25_SetStatusIdempotent ==
    [][\A taskId \in TaskIdParams, newStatus \in TaskStatuses :
          TaskSetStatus(taskId, newStatus) =>
             /\ (taskId \in 1 .. Len(tasks) /\ tasks[taskId].status = newStatus)
                   => tasks' = tasks
             /\ lastRequest = [taskId |-> taskId, status |-> newStatus]
                   => tasks' = tasks
      ]_vars

\* task_set_status(1, completed) ran twice: the stamp is that of the first call.
C25_Witness ==
    /\ opClock = 2
    /\ lastRequest = [taskId |-> 1, status |-> "completed"]
    /\ Len(tasks) >= 1
    /\ tasks[1].status = "completed" /\ tasks[1].completedAt = 1


\* the shutdown_request envelopes of a mailbox
ShutdownRequestsIn(box) == SelectSeq(box, LAMBDA e : e.type = "shutdown_request")

\* the request ids of all shutdown_request envelopes written so far
RequestIdsIn(boxes) ==
    UNION {{ShutdownRequestsIn(boxes[n])[i].requestId :
               i \in 1 .. Len(ShutdownRequestsIn(boxes[n]))} : n \in ToolNames}

\* C26 (as stated): member_shutdown writes exactly one shutdown_request
\* envelope, with a requestId no other request has, to the team mailbox of each
\* targeted worker (the named one, or every online worker with all=true) and
\* records shutdownRequestedAt and the requestId in the member's meta; a
\* worker that is not online is sent no shutdown_request.
C26_ShutdownRequests ==
    [][\A all \in BOOLEAN, name \in {"", "w1"}, reason \in ReasonParams :
          (MemberShutdown(all, name, reason) /\ (all \/ name # "")) =>
             LET targeted == IF all THEN {n \in ToolNames : members[n] = "online"}
                             ELSE {name}
             IN /\ \A n \in targeted :
                      /\ Len(teamMailbox'[n]) = Len(teamMailbox[n]) + 1
                      /\ LET e == teamMailbox'[n][Len(teamMailbox'[n])]
                         IN /\ e.type = "shutdown_request"
                            /\ e.requestId \notin RequestIdsIn(teamMailbox)
                            /\ e.requestId \notin
                                  RequestIdsIn([teamMailbox' EXCEPT ![n] = <<>>])
                            /\ memberMeta'[n].shutdownRequestedAt = e.timestamp
                            /\ memberMeta'[n].shutdownRequestId = e.requestId
                /\ \A n \in ToolNames :
                      members[n] # "online" => teamMailbox'[n] = teamMailbox[n]
      ]_vars

\* the owners of in_progress tasks
InProgressOwners ==
    {tasks[i].owner : i \in {j \in 1 .. Len(tasks) :
        tasks[j].owner # "" /\ tasks[j].status = "in_progress"}}

\* member_prune with parameter all: every worker for which stale holds, and
\* no other member, goes offline with prunedAt and prunedBy = teams-tool
PruneMarks(all, stale(_)) ==
    \A n \in ToolNames :
        IF /\ members[n] # "none"
           /\ n \notin Running
           /\ n \notin InProgressOwners
           /\ all \/ stale(n)
        THEN /\ members'[n] = "offline"
             /\ memberMeta'[n] = [memberMeta[n] EXCEPT !.prunedAt = opClock',
                                                       !.prunedBy = "teams-tool"]
        ELSE /\ members'[n] = members[n]
             /\ memberMeta'[n] = memberMeta[n]

SeenBefore(n, age) == memberMeta[n].lastSeenAge # Unset /\ memberMeta[n].lastSeenAge > age
SeenAtOrBefore(n, age) == memberMeta[n].lastSeenAge # Unset /\ memberMeta[n].lastSeenAge >= age

OlderThanCutoff(n) == SeenBefore(n, PruneCutoff)
AtLeastCutoff(n) == SeenAtOrBefore(n, PruneCutoff)

\* C27 (as stated): member_prune marks a worker offline, with prunedAt and
\* prunedBy = teams-tool, if and only if it is not a running teammate, owns no
\* in_progress task and, unless all=true, has a lastSeenAt older than one
\* hour; all other members are left unchanged.
C27_PruneOlderThanHour ==
    [][\A all \in BOOLEAN : MemberPrune(all) => PruneMarks(all, OlderThanCutoff)]_vars

\* C27 (amended): the same with a lastSeenAt that is one hour old or older
\* (now - lastSeenAt >= one hour); a worker last seen 10 minutes ago is left
\* alone with all=false and pruned with all=true.
C27_PruneAtLeastHour ==
    [][\A all \in BOOLEAN :
          MemberPrune(all) =>
             /\ PruneMarks(all, AtLeastCutoff)
             /\ (/\ memberMeta["w1"].lastSeenAge = 10
                 /\ members["w1"] # "none"
                 /\ "w1" \notin Running \cup InProgressOwners)
                   => IF all THEN members'["w1"] = "offline"
                             ELSE /\ members'["w1"] = members["w1"]
                                  /\ memberMeta'["w1"] = memberMeta["w1"]
      ]_vars

\* w1, last seen 10 minutes ago, survived a member_prune and was pruned by the
\* next one.
C27_Witness ==
    /\ toolResult.action = "member_prune" /\ toolResult.text = "Pruned"
    /\ memberMeta["w1"].lastSeenAge = 10
    /\ members["w1"] = "offline"
    /\ memberMeta["w1"].prunedBy = "teams-tool"
    /\ memberMeta["w1"].prunedAt = 2

\* C28: message_broadcast writes the message once to the team mailbox of every
\* name among the workers of the team config, the running teammates and the
\* owners of tasks other than the lead, every copy with the same text and the
\* same timestamp, and to no other mailbox; with no such name it writes nothing.
C28_BroadcastRecipients ==
    [][\A message \in MessageParams \ {""} :
          MessageBroadcast(message) =>
             LET union == {n \in ToolNames : members[n] # "none"}
                             \cup Running
                             \cup {tasks[i].owner : i \in {j \in 1 .. Len(tasks) :
                                      tasks[j].owner \notin {"", LeadName}}}
             IN /\ \E ts \in 1 .. MaxOps + 1 :
                      \A n \in ToolNames :
                         teamMailbox'[n] =
                            IF n \in union
                            THEN Append(teamMailbox[n], PlainMessage(message, ts))
                            ELSE teamMailbox[n]
                /\ taskMailbox' = taskMailbox
                /\ union = {} => teamMailbox' = teamMailbox
      ]_vars

\* A broadcast reached agent1, a member, and w1, who is no member and runs
\* nowhere but owns a task: both hold the same message.
C28_Witness ==
    /\ toolResult.action = "message_broadcast" /\ toolResult.text = "Broadcast queued"
    /\ members["w1"] = "none" /\ "w1" \notin Running
    /\ members["agent1"] # "none"
    /\ teamMailbox["w1"] = <<PlainMessage("hello", 1)>>
    /\ teamMailbox["agent1"] = teamMailbox["w1"]
    /\ \A n \in ToolNames \ {"w1", "agent1"} : teamMailbox[n] = <<>>


\* session s holds the attach claim of team t
HoldsClaim(files, s, t) == files[t] # <<>> /\ files[t][1].holderSessionId = s

\* the teams other than its own on which s holds the claim
ExternalClaims(s) == {t \in Teams \ {s} : HoldsClaim(claimFiles, s, t)}

\* acquire by s on team t is refused: a live claim of another session, no --claim
Refused(s, t, forceClaim) ==
    /\ claimFiles[t] # <<>>
    /\ claimFiles[t][1].holderSessionId # s
    /\ ~forceClaim
    /\ IsFinite(DateParse(claimFiles[t][1].heartbeatAt))
    /\ clock - DateParse(claimFiles[t][1].heartbeatAt) <= TEAM_ATTACH_CLAIM_STALE_MS

LowerId == [i \in 1 .. Len(modelId) |-> IF modelId[i] = "MU" THEN "M" ELSE modelId[i]]
MarkerAt == {i \in 1 .. Len(LowerId) : LowerId[i] = "M"}
FollowedBy5(i) ==
    /\ i + 2 <= Len(LowerId)
    /\ LowerId[i + 1] \in {"-", "."}
    /\ LowerId[i + 2] = "5"

\* C30 (as stated): a model id is deprecated if and only if the marker
\* claude-sonnet-4 occurs in the lowercased id and is not immediately followed
\* by -5 or .5; whatever else follows the marker, or nothing, the id is
\* deprecated.
C30_DeprecatedUnlessFive ==
    deprecated # <<>> =>
        (deprecated[1] <=> (MarkerAt # {} /\ \A i \in MarkerAt : ~FollowedBy5(i)))

\* C30 (amended): a model id is deprecated if and only if the marker occurs in
\* the lowercased id, no occurrence is immediately followed by -5 or .5, and
\* the first occurrence ends the trimmed id or is followed by one of the
\* characters - _ . : (an id that goes on with a digit or a letter, such as
\* claude-sonnet-45, is not deprecated).
C30_DeprecatedAtSeparator ==
    deprecated # <<>> =>
        (deprecated[1] <=>
            /\ MarkerAt # {}
            /\ \A i \in MarkerAt : ~FollowedBy5(i)
            /\ LET first == CHOOSE i \in MarkerAt : \A j \in MarkerAt : i <= j
               IN \/ \A k \in (first + 1) .. Len(LowerId) : LowerId[k] = " "
                  \/ /\ first < Len(LowerId)
                     /\ LowerId[first + 1] \in {"-", "_", ".", ":"})

\* claude-sonnet-45 was looked at: it holds the marker, goes on with a digit,
\* and is not deprecated.
C30_Witness ==
    /\ modelId = <<"M", "5">>
    /\ deprecated = <<FALSE>>


\* the override as the resolver reads it (trimmed), the place of its first "/",
\* and the two parts around it
OverrideText ==
    IF selectionInput.modelOverride = <<>> THEN <<>>
    ELSE Trim(selectionInput.modelOverride[1])
SlashAt == {i \in 1 .. Len(OverrideText) : OverrideText[i] = "/"}
FirstSlash == CHOOSE i \in SlashAt : \A j \in SlashAt : i <= j
ProviderPart == Trim(SubSeq(OverrideText, 1, FirstSlash - 1))
ModelIdPart == Trim(SubSeq(OverrideText, FirstSlash + 1, Len(OverrideText)))

\* C31: an override that contains "/" is split at its first "/"; with an empty
\* provider part or an empty model-id part the resolver returns the error
\* invalid_override (and the spawn it belongs to launches no teammate), with a
\* deprecated model id it returns deprecated_override, and otherwise it returns
\* ok with source override, that provider, that model id and no warnings; the
\* override "openai-codex/" is rejected as invalid_override and nothing is
\* spawned for it.
C31_ProviderOverride ==
    (selection # <<>> /\ SlashAt # {}) =>
        LET r == selection[1]
        IN /\ IF ProviderPart = <<>> \/ ModelIdPart = <<>>
              THEN ~r.ok /\ r.reason = "invalid_override"
              ELSE IF isDeprecatedTeammateModelId(ModelIdPart)
              THEN ~r.ok /\ r.reason = "deprecated_override"
              ELSE /\ r.ok
                   /\ r.source = "override"
                   /\ r.provider = <<ProviderPart>>
                   /\ r.modelId = <<ModelIdPart>>
                   /\ r.warnings = <<>>
           /\ ~r.ok => teammates = <<>> /\ \A n \in ToolNames : members[n] = "none"
           /\ selectionInput.modelOverride = <<(<<"x", "/">>)>> =>
                  ~r.ok /\ r.reason = "invalid_override" /\ teammates = <<>>

\* the override openai-codex/ has been resolved: invalid_override, nobody spawned
C31_Witness ==
    /\ selectionInput.modelOverride = <<(<<"x", "/">>)>>
    /\ selection # <<>>
    /\ ~selection[1].ok
    /\ selection[1].reason = "invalid_override"
    /\ teammates = <<>>


\* the leader's provider as the resolver reads it: <<>> when it is not known
LeaderProviderText ==
    IF selectionInput.leaderProvider = <<>> THEN <<>>
    ELSE Trim(selectionInput.leaderProvider[1])

\* C32: a non-empty override without "/" that is not deprecated yields ok with
\* source override and the override as model id; the provider is the leader's
\* provider, with no warning, when that provider is known, and is unset, with
\* exactly one warning, when it is not.  The input {modelOverride: codex-mini,
\* leaderProvider: openai-codex} gives {source: override, provider:
\* openai-codex, modelId: codex-mini, warnings: []}.
C32_ModelOnlyOverride ==
    (/\ selection # <<>>
     /\ OverrideText # <<>>
     /\ SlashAt = {}
     /\ ~isDeprecatedTeammateModelId(OverrideText)) =>
        LET r == selection[1]
        IN /\ r.ok
           /\ r.source = "override"
           /\ r.modelId = <<OverrideText>>
           /\ IF LeaderProviderText # <<>>
              THEN r.provider = <<LeaderProviderText>> /\ r.warnings = <<>>
              ELSE r.provider = <<>> /\ Len(r.warnings) = 1
           /\ (/\ selectionInput.modelOverride = <<(<<"x", "-", "x">>)>>
               /\ selectionInput.leaderProvider = <<(<<"x">>)>>) =>
                  r = Resolved("override", <<(<<"x">>)>>, <<(<<"x", "-", "x">>)>>, <<>>)

\* a model id alone was resolved while the leader's provider was not known: the
\* selection carries the id, no provider and one warning
C32_Witness ==
    /\ selectionInput.modelOverride = <<(<<"x", "-", "x">>)>>
    /\ selectionInput.leaderProvider = <<(<<" ">>)>>
    /\ selection # <<>>
    /\ selection[1].ok
    /\ selection[1].modelId = <<(<<"x", "-", "x">>)>>
    /\ selection[1].provider = <<>>
    /\ Len(selection[1].warnings) = 1
    /\ teammates = <<"w1">>

\* the leader's model id as the resolver reads it: <<>> when the leader has none
LeaderModelText ==
    IF selectionInput.leaderModelId = <<>> THEN <<>>
    ELSE Trim(selectionInput.leaderModelId[1])

\* C33: with no override the resolver returns source inherit_leader, with the
\* leader's provider and model id, if and only if the leader has a non-empty
\* model id that is not deprecated, and source default with no provider and no
\* model id otherwise; and no ok result of the resolver, whatever the input,
\* carries a deprecated model id.
C33_InheritLeader ==
    selection # <<>> =>
        LET r == selection[1]
        IN /\ OverrideText = <<>> =>
                 /\ r.ok
                 /\ r.source \in {"inherit_leader", "default"}
                 /\ r.source = "inherit_leader" <=>
                        (LeaderModelText # <<>> /\ ~isDeprecatedTeammateModelId(LeaderModelText))
                 /\ r.source = "inherit_leader" =>
                        /\ r.modelId = <<LeaderModelText>>
                        /\ r.provider = (IF LeaderProviderText = <<>> THEN <<>>
                                         ELSE <<LeaderProviderText>>)
                        /\ r.warnings = <<>>
                 /\ r.source = "default" =>
                        r.provider = <<>> /\ r.modelId = <<>> /\ r.warnings = <<>>
           /\ (r.ok /\ r.modelId # <<>>) => ~isDeprecatedTeammateModelId(r.modelId[1])

\* the leader runs a deprecated model and no override was given: the runtime
\* defaults are selected
C33_Witness ==
    /\ selectionInput.modelOverride = <<>>
    /\ selectionInput.leaderModelId = <<(<<"MU", " ">>)>>
    /\ selectionInput.leaderProvider = <<(<<"x">>)>>
    /\ selection # <<>>
    /\ selection[1] = Resolved("default", <<>>, <<>>, <<>>)

\* C34: the resolver is total: for every input, empty and blank strings
\* included, it returns either ok with a source among override, inherit_leader
\* and default, or an error with a reason among invalid_override and
\* deprecated_override.
C34_ResolverTotal ==
    selection # <<>> =>
        LET r == selection[1]
        IN \/ r.ok /\ r.source \in {"override", "inherit_leader", "default"} /\ r.reason = ""
           \/ ~r.ok /\ r.reason \in {"invalid_override", "deprecated_override"} /\ r.source = ""

\* a blank override was resolved: it counts as no override, and the leader's
\* model is inherited
C34_Witness ==
    /\ selectionInput.modelOverride = <<(<<" ", " ">>)>>
    /\ selectionInput.leaderModelId = <<(<<"x">>)>>
    /\ selection # <<>>
    /\ selection[1].ok
    /\ selection[1].source = "inherit_leader"


\* the required fields of each envelope in the protocol table
RequiredFields(t) ==
    (IF t \in {"shutdown_request", "shutdown_approved", "shutdown_rejected", "abort_request",
               "plan_approval_request", "plan_approved", "plan_rejected"}
     THEN {"requestId"} ELSE {})
    \cup (IF t \in {"idle_notification", "plan_approval_request", "plan_approved",
                    "plan_rejected", "peer_dm_sent"}
          THEN {"from"} ELSE {})
    \cup (IF t = "task_assignment" THEN {"taskId"} ELSE {})
    \cup (IF t = "set_session_name" THEN {"name"} ELSE {})

\* C35: every protocol parser returns for any text, and returns an envelope
\* only when the text is a JSON object whose type is the parser's envelope
\* type and in which every required field of that envelope is a string;
\* otherwise it returns null.  No text is accepted by two parsers.
C35_ParsersStrict ==
    parsed # <<>> =>
        /\ \A t \in EnvelopeTypes :
              parsed[1][t] # <<>> =>
                  /\ mailText.json
                  /\ mailText.value.typeof = "object"
                  /\ ~mailText.value.falsy
                  /\ mailText.value.type = Str(t)
                  /\ \A f \in RequiredFields(t) :
                         mailText.value.fields[f].typeof = "string"
        /\ \A t, u \in EnvelopeTypes : (parsed[1][t] # <<>> /\ parsed[1][u] # <<>>) => t = u


\* C36: for one pending plan approval at most one decision envelope
\* (plan_approved or plan_rejected) with its requestId is ever written to the
\* worker's mailbox, however plan_approve / plan_reject calls for that worker
\* overlap.
C36_OneDecisionPerRequest ==
    \A name \in ToolNames : \A requestId \in 1 .. MaxPlanRequests :
        Cardinality(DecisionsFor(name, requestId)) <= 1


\* the shape of an event: an object whose type is a string other than "response"
EventShape(line) ==
    /\ line.shape = "object"
    /\ line.object.type.typeof = "string"
    /\ line.object.type # Str("response")

\* C37: a line of stdout reaches the event listeners, and may change the
\* status or lastAssistantText, only if it parses to an object whose type is a
\* string other than "response"; a line that cannot be parsed, a value that is
\* no object and every object of type "response" neither reaches the
\* listeners nor changes the status; and a request is resolved only by a
\* structurally valid response whose id is that of a pending request.
C37_OnlyEventsDispatched ==
    [][\A p \in Children, line \in StdoutLines :
          HandleLine(p, line) =>
              /\ (\/ lineOutcome' = "listeners"
                  \/ status' # status
                  \/ lastAssistantText' # lastAssistantText) => EventShape(line)
              /\ (line.shape # "object" \/ line.object.type = Str("response")) =>
                     (lineOutcome' # "listeners" /\ status' = status)
              /\ pending' # pending =>
                     /\ isRpcResponse(line)
                     /\ line.object.id.typeof = "string"
                     /\ line.object.id.req \in pending
                     /\ pending' = pending \ {line.object.id.req}
    ]_vars


\* C38: member_shutdown only records the request: it changes no member's
\* status, so a member that is offline, or absent from the config, before the
\* call is not online after it.
C38_ShutdownKeepsStatus ==
    [][\A all \in BOOLEAN, name \in AssigneeParams, reason \in ReasonParams :
          MemberShutdown(all, name, reason) =>
              /\ members' = members
              /\ \A n \in ToolNames : members[n] # "online" => members'[n] # "online"
    ]_vars


\* C39: delegate creates a task, and writes its task_assignment envelope, only
\* for an assignee that is a running teammate or whose spawn has just returned
\* ok: every new task is owned by, and every new envelope is written to, a
\* teammate that was in the map before the call or that the call spawned; an
\* entry whose assignee could not be spawned and an entry with empty text
\* create no task and no envelope.
C39_DelegateOnlyToRunning ==
    [][DelegateReturns =>
          LET a == toolResult'.details.assignments
              w == toolResult'.details.warnings
              reached == Reached(toolCall.params)
              withText == SelectSeq(reached, LAMBDA e : e.text # "")
              usable == SeqToSet(teammates) \cup SeqToSet(toolResult'.details.spawned)
          IN /\ \A k \in (Len(tasks) + 1) .. Len(tasks') :
                   /\ tasks'[k].owner \in usable
                   /\ tasks'[k].owner \in SeqToSet(teammates')
             /\ \A n \in MailboxNames :
                   Len(taskMailbox'[n]) > Len(taskMailbox[n]) => n \in usable
             /\ Len(tasks') - Len(tasks) =
                   Len(withText) - CountOf(w, "Failed to spawn assignee")
             /\ NewEnvelopeCount = Len(tasks') - Len(tasks)
             /\ withText = <<>> => (tasks' = tasks /\ taskMailbox' = taskMailbox)
      ]_vars

\* A call with two entries for teammates that were not running has returned:
\* the spawn of the first assignee failed and that of the second succeeded, so
\* there is one task, owned by the second, and one envelope.
C39_Witness ==
    /\ toolCall = NoToolCall
    /\ toolResult.action = "delegate"
    /\ CountOf(toolResult.details.warnings, "Failed to spawn assignee") = 1
    /\ Len(toolResult.details.spawned) = 1
    /\ Len(toolResult.details.assignments) = 1
    /\ Len(tasks) = 1
    /\ tasks[1].owner \in SeqToSet(teammates)
    /\ Len(taskMailbox[tasks[1].owner]) = 1


\* the status a rendering shows in the row of name; "" when it has no such row
ShownStatus(lines, name) ==
    IF \E i \in 1 .. Len(lines) : lines[i].kind = "row" /\ lines[i].name = name
    THEN lines[CHOOSE i \in 1 .. Len(lines) :
                   lines[i].kind = "row" /\ lines[i].name = name].status
    ELSE ""

\* there are no live teammates, no tasks and no online workers
NothingToShow ==
    /\ teammates = <<>>
    /\ tasks = <<>>
    /\ \A n \in ToolNames : members[n] # "online"

\* C40: in every rendering of the widget a worker whose RPC status is idle and
\* who owns an in_progress task is shown as working, and the rendering is empty
\* exactly when there are no live teammates, no tasks and no online workers.
C40_IdleOwnerShownWorking ==
    widget # <<>> =>
        \A lines \in {widget[1].built, widget[1].rendered} :
            /\ \A n \in SeqToSet(teammates) :
                  (rpcStatusOf[n] = "idle" /\ n \in InProgressOwners) =>
                      ShownStatus(lines, n) = "working"
            /\ lines = <<>> <=> NothingToShow

====
